---- MODULE Spec2Model ----
(***************************************************************************)
(* Model of the pursuer ("Roswell") finite-state controller of             *)
(* kleppy/mollieroswell: class Enemy (src/entities/Enemy.ts) together with    *)
(* the part of the frame loop that drives it (GameScene.update and the     *)
(* arcade-physics world step).                                             *)
(*                                                                         *)
(* Geometry.  Positions are whole pixels.  The levels of the model are     *)
(* corridors along the x axis: every waypoint, target and the pursuer      *)
(* itself have y = 0, the corridor walls stop any motion along y, and      *)
(* solid obstacles across the corridor stop motion along x.  Angles are    *)
(* whole degrees in (-180, 180]; in a corridor every bearing is a multiple *)
(* of 90 degrees, so sines and cosines are exact.  Time is milliseconds.   *)
(***************************************************************************)
EXTENDS Integers, Sequences, FiniteSets, TLC

VARIABLES
  state,            \* Enemy.state
  waypointIndex,    \* Enemy.waypointIndex (0-based, as in the source)
  facingAngle,      \* Enemy.facingAngle, in degrees
  lastSeenPos,      \* Enemy.lastSeenPos
  losTimer,         \* Enemy.losTimer
  searchTimer,      \* Enemy.searchTimer
  stunTimer,        \* Enemy.stunTimer
  obstacles,        \* Enemy.obstacles (sequence of rectangles)
  waypoints,        \* Enemy.waypoints (sequence of points)
  lastX, lastY,     \* Enemy.lastX / lastY (stuck-detection snapshot)
  stuckTimer,       \* Enemy.stuckTimer
  blockedCooldown,  \* Enemy.blockedCooldown
  pos,              \* sprite.x / sprite.y
  velocity,         \* sprite.body.velocity
  blocked,          \* sprite.body.blocked (left, right, up, down)
  delta,            \* frame delta passed to the last update() (ms)
  sighted,          \* observer: the target position passed to the last update() if it
                    \* passed the vision test on that tick, else NoTarget
  lastOp,           \* last operation: "create", "stun", "update"
  startState,       \* state at entry of the last update() / stun()
  midState,         \* state after the vision / loss-timer block of the last update()
  canSee,           \* local canSee of the last update(): "yes", "no", "skipped"
  unseenMs,         \* observer: deltas of the current run of non-perceiving CHASE ticks
  sinceStunMs,      \* observer: deltas of the updates since the last stun()
  patrolMark,       \* observer: waypoint index when PATROL was last left for CHASE
  searchBefore,     \* observer: searchTimer at entry of the last update() / stun()
  stunBefore,       \* observer: stunTimer at entry of the last update() / stun()
  probe,            \* one call of a geometric query: its arguments and its result
  axol,             \* GameScene.axol: the Axol object (its fields and its sprite)
  treats,           \* GameScene.treatGroup: the blue treats, each with its active flag
  world,            \* scene.physics.world.bounds
  axolLog,          \* observer: what the last operation on the helper went through
  game,             \* the session: scene, level, poop charges, mute flags
  recovery,         \* observer: the stuck recoveries of one agent and the time between them
  level             \* the objects of the running level: treats, helper, pursuers, poops

enemyVars ==
  << state, waypointIndex, facingAngle, lastSeenPos, losTimer, searchTimer,
     stunTimer, obstacles, waypoints, lastX, lastY, stuckTimer,
     blockedCooldown, pos, velocity, blocked, delta, sighted, lastOp,
     startState, midState, canSee, unseenMs, sinceStunMs, patrolMark,
     searchBefore, stunBefore >>

vars == << state, waypointIndex, facingAngle, lastSeenPos, losTimer, searchTimer,
           stunTimer, obstacles, waypoints, lastX, lastY, stuckTimer,
           blockedCooldown, pos, velocity, blocked, delta, sighted, lastOp,
           startState, midState, canSee, unseenMs, sinceStunMs,
           patrolMark, searchBefore, stunBefore, probe, axol, treats, world, axolLog,
           game, recovery, level >>

axolVars == << axol, treats, world, axolLog >>

\* what the pursuer's and the helper's own specifications leave alone
restVars == << game, recovery, level >>

(***************************************************************************)
(* Program constants                                                       *)
(***************************************************************************)
ENEMY_STUNNED_SPEED == 48
VISION_RANGE == 250
VISION_HALF_ANGLE_DEG == 35
POOP_STUN_DURATION_MS == 2000
SEARCH_DURATION_MS == 3000
LOS_LOST_TIMEOUT_MS == 3000
WAYPOINT_ARRIVE_DIST == 20
ROSWELL_CHASE_SPEED == 140
patrolSpeed == 110
chaseSpeed == ROSWELL_CHASE_SPEED
StuckInterval == 500
StuckMinMove == 2
BlockedCooldownMs == 350
BlockedMinVel == 10
BodyHalfWidth == 8

(***************************************************************************)
(* Bounds of the model                                                     *)
(***************************************************************************)
WorldWidth == 400
GridMax == 8

\* frame deltas fed to the frame loop
Deltas == {1000, 3000}
\* x coordinates at which the orchestration layer may report the target
TargetXs == {30, 70, 180}
\* Math.random() outcomes of unstick(), as the angular offset (r - 0.5) * 180
\* they produce: r = 0 gives -90 degrees, r = 0.5 gives 0
RandomOffsets == {-90, 0}

Pt(x, y) == [x |-> x, y |-> y]
Rect(x, y, w, h) == [x |-> x, y |-> y, w |-> w, h |-> h]

\* solid rectangles of the corridor: the end walls and a piece of furniture
LeftWall == Rect(-18, -12, 20, 24)
RightWall == Rect(198, -12, 20, 24)
Furniture == Rect(138, -12, 24, 24)

\* level configurations: patrol waypoints and solid obstacles
Levels ==
  { [waypoints |-> << Pt(20, 0), Pt(120, 0) >>,
     obstacles |-> << LeftWall, Furniture, RightWall >>],
    [waypoints |-> << >>,
     obstacles |-> << LeftWall, Furniture, RightWall >>] }
\* spawn positions of the pursuer
StartXs == {100}
LosCoords == {0, 4, 6, 12, 18, 24}

States == {"PATROL", "CHASE", "SEARCH", "STUNNED"}

(***************************************************************************)
(* Arithmetic helpers                                                      *)
(***************************************************************************)
Abs(n) == IF n < 0 THEN -n ELSE n
Max(a, b) == IF a >= b THEN a ELSE b
Min(a, b) == IF a <= b THEN a ELSE b
Sign(n) == IF n > 0 THEN 1 ELSE IF n < 0 THEN -1 ELSE 0

\* squared length of a vector: comparisons of Math.sqrt / Math.hypot results
\* against a threshold are made on squares, which is exact
DistSq(dx, dy) == dx * dx + dy * dy

\* Atan2Deg with its two arguments taken in the other order
Atan2Deg_Swapped(dy, dx) ==
  IF dx = 0 THEN (IF dy >= 0 THEN 0 ELSE 180)
  ELSE IF dy = 0 THEN (IF dx > 0 THEN 90 ELSE -90)
  ELSE IF Abs(dx) = Abs(dy)
       THEN (IF dy > 0 THEN (IF dx > 0 THEN 45 ELSE -45)
                       ELSE (IF dx > 0 THEN 135 ELSE -135))
  ELSE CHOOSE a \in {} : TRUE

\* Math.atan2(dy, dx) in degrees; the bearings of a corridor level
Atan2Deg(dy, dx) ==
  IF dy = 0 THEN (IF dx >= 0 THEN 0 ELSE 180)
  ELSE IF dx = 0 THEN (IF dy > 0 THEN 90 ELSE -90)
  ELSE IF Abs(dx) = Abs(dy)
       THEN (IF dx > 0 THEN (IF dy > 0 THEN 45 ELSE -45)
                       ELSE (IF dy > 0 THEN 135 ELSE -135))
  ELSE CHOOSE a \in {} : TRUE

\* angle normalised to (-180, 180]: atan2(sin a, cos a)
NormDeg(a) ==
  LET m == a % 360 IN IF m > 180 THEN m - 360 ELSE m

CosDeg(a) ==
  LET n == NormDeg(a) IN
  IF n = 0 THEN 1 ELSE IF n = 180 THEN -1 ELSE IF n \in {90, -90} THEN 0
  ELSE CHOOSE c \in {} : TRUE

SinDeg(a) ==
  LET n == NormDeg(a) IN
  IF n = 90 THEN 1 ELSE IF n = -90 THEN -1 ELSE IF n \in {0, 180} THEN 0
  ELSE CHOOSE c \in {} : TRUE

(***************************************************************************)
(* Vision system                                                           *)
(***************************************************************************)
\* Phaser.Geom.Intersects.LineToLine on segments (x1,y1)-(x2,y2) and
\* (x3,y3)-(x4,y4): false for a zero-length or parallel pair, otherwise true
\* when both intersection parameters lie in [0, 1]
LineToLine(x1, y1, x2, y2, x3, y3, x4, y4) ==
  LET denom == (y4 - y3) * (x2 - x1) - (x4 - x3) * (y2 - y1)
      na    == (x4 - x3) * (y1 - y3) - (y4 - y3) * (x1 - x3)
      nb    == (x2 - x1) * (y1 - y3) - (y2 - y1) * (x1 - x3)
      InUnit(n) == IF denom > 0 THEN 0 <= n /\ n <= denom
                                ELSE denom <= n /\ n <= 0
  IN  /\ ~((x1 = x2 /\ y1 = y2) \/ (x3 = x4 /\ y3 = y4))
      /\ denom # 0
      /\ InUnit(na)
      /\ InUnit(nb)

\* Phaser.Geom.Intersects.LineToRectangle, the test GetLineToRectangle makes
\* before it looks at the edges: an end point inside the rectangle, or the
\* line reaching the left / right edge and the top / bottom edge within the
\* rectangle.  The quotients of the source are compared by cross
\* multiplication.
LineToRectangle(x1, y1, x2, y2, obs) ==
  LET bx1 == obs.x
      by1 == obs.y
      bx2 == obs.x + obs.w
      by2 == obs.y + obs.h
      Inside(x, y) == bx1 <= x /\ x <= bx2 /\ by1 <= y /\ y <= by2
      \* c + n / d compared with a bound, d # 0
      Gt(c, n, d, k) == IF d > 0 THEN n > (k - c) * d ELSE n < (k - c) * d
      Ge(c, n, d, k) == IF d > 0 THEN n >= (k - c) * d ELSE n <= (k - c) * d
      Le(c, n, d, k) == IF d > 0 THEN n <= (k - c) * d ELSE n >= (k - c) * d
      leftHit   == /\ x1 < bx1 /\ x2 >= bx1
                   /\ Gt(y1, (y2 - y1) * (bx1 - x1), x2 - x1, by1)
                   /\ Le(y1, (y2 - y1) * (bx1 - x1), x2 - x1, by2)
      rightHit  == /\ ~(x1 < bx1 /\ x2 >= bx1)
                   /\ x1 > bx2 /\ x2 <= bx2
                   /\ Ge(y1, (y2 - y1) * (bx2 - x1), x2 - x1, by1)
                   /\ Le(y1, (y2 - y1) * (bx2 - x1), x2 - x1, by2)
      topHit    == /\ y1 < by1 /\ y2 >= by1
                   /\ Ge(x1, (x2 - x1) * (by1 - y1), y2 - y1, bx1)
                   /\ Le(x1, (x2 - x1) * (by1 - y1), y2 - y1, bx2)
      bottomHit == /\ ~(y1 < by1 /\ y2 >= by1)
                   /\ y1 > by2 /\ y2 <= by2
                   /\ Ge(x1, (x2 - x1) * (by2 - y1), y2 - y1, bx1)
                   /\ Le(x1, (x2 - x1) * (by2 - y1), y2 - y1, bx2)
  IN  Inside(x1, y1) \/ Inside(x2, y2)
        \/ leftHit \/ rightHit \/ topHit \/ bottomHit

\* RayHitsRect looking at the top and the bottom edge only
RayHitsRect_HorizontalEdges(x1, y1, x2, y2, obs) ==
  LET l == obs.x
      t == obs.y
      r == obs.x + obs.w
      b == obs.y + obs.h
  IN  /\ LineToRectangle(x1, y1, x2, y2, obs)
      /\ \/ LineToLine(x1, y1, x2, y2, l, t, r, t)
         \/ LineToLine(x1, y1, x2, y2, l, b, r, b)

\* Phaser.Geom.Intersects.GetLineToRectangle(ray, rect, hits); hits.length > 0:
\* LineToRectangle holds and the ray crosses one of the four edges
RayHitsRect(x1, y1, x2, y2, obs) ==
  LET l == obs.x
      t == obs.y
      r == obs.x + obs.w
      b == obs.y + obs.h
  IN  /\ LineToRectangle(x1, y1, x2, y2, obs)
      /\ \/ LineToLine(x1, y1, x2, y2, l, t, r, t)
         \/ LineToLine(x1, y1, x2, y2, r, t, r, b)
         \/ LineToLine(x1, y1, x2, y2, l, b, r, b)
         \/ LineToLine(x1, y1, x2, y2, l, t, l, b)

IsRayBlocked(e, x1, y1, x2, y2) ==
  \E i \in 1..Len(e.obstacles) : RayHitsRect(x1, y1, x2, y2, e.obstacles[i])

\* CanSeePlayer with exclusive boundaries of range and cone
CanSeePlayer_Exclusive(e, playerX, playerY) ==
  LET dx == playerX - e.pos.x
      dy == playerY - e.pos.y
      distSq == dx * dx + dy * dy
      angleToPlayer == Atan2Deg(dy, dx)
      diff == NormDeg(angleToPlayer - e.facingAngle)
  IN  IF distSq >= VISION_RANGE * VISION_RANGE THEN FALSE
      ELSE IF Abs(diff) >= VISION_HALF_ANGLE_DEG THEN FALSE
      ELSE ~IsRayBlocked(e, e.pos.x, e.pos.y, playerX, playerY)

CanSeePlayer(e, playerX, playerY) ==
  LET dx == playerX - e.pos.x
      dy == playerY - e.pos.y
      distSq == dx * dx + dy * dy
      angleToPlayer == Atan2Deg(dy, dx)
      diff == NormDeg(angleToPlayer - e.facingAngle)
  IN  IF distSq > VISION_RANGE * VISION_RANGE THEN FALSE
      ELSE IF Abs(diff) > VISION_HALF_ANGLE_DEG THEN FALSE
      ELSE ~IsRayBlocked(e, e.pos.x, e.pos.y, playerX, playerY)

(***************************************************************************)
(* Movement helper                                                         *)
(***************************************************************************)
\* (d / dist) * speed for a component d of an axis-aligned vector
Component(d, dx, dy, speed) ==
  IF dx = 0 \/ dy = 0 THEN Sign(d) * speed
  ELSE CHOOSE c \in {} : TRUE

MoveToward(e, tx, ty, speed) ==
  LET dx == tx - e.pos.x
      dy == ty - e.pos.y
  IN  IF DistSq(dx, dy) < 1
      THEN [e EXCEPT !.velocity = Pt(0, 0)]
      ELSE [e EXCEPT !.velocity = Pt(Component(dx, dx, dy, speed),
                                     Component(dy, dx, dy, speed)),
                     !.facingAngle = Atan2Deg(dy, dx)]

(***************************************************************************)
(* Stuck detection                                                         *)
(***************************************************************************)
\* rnd is the angular offset (Math.random() - 0.5) * PI, in degrees
\* Unstick that nudges whatever the state
Unstick_AlwaysNudges(e, rnd) ==
  LET angle == e.facingAngle + rnd
      spd   == IF e.state = "CHASE" THEN chaseSpeed ELSE patrolSpeed
  IN  [e EXCEPT !.velocity = Pt(CosDeg(angle) * spd, SinDeg(angle) * spd)]

Unstick(e, rnd) ==
  IF e.state = "PATROL" /\ Len(e.waypoints) # 0
  THEN [e EXCEPT !.waypointIndex = (e.waypointIndex + 1) % Len(e.waypoints)]
  ELSE LET angle == e.facingAngle + rnd
           spd   == IF e.state = "CHASE" THEN chaseSpeed ELSE patrolSpeed
       IN  [e EXCEPT !.velocity = Pt(CosDeg(angle) * spd, SinDeg(angle) * spd)]

\* the periodic half of updateStuck: true when it calls unstick()
PeriodicFires(e, dt) ==
  /\ e.stuckTimer + dt >= StuckInterval
  /\ DistSq(e.pos.x - e.lastX, e.pos.y - e.lastY) < StuckMinMove * StuckMinMove

\* CollisionFires without the cooldown test
CollisionFires_NoCooldown(e, dt) ==
  /\ e.blocked.left \/ e.blocked.right \/ e.blocked.up \/ e.blocked.down
  /\ Abs(e.velocity.x) > BlockedMinVel \/ Abs(e.velocity.y) > BlockedMinVel

\* the collision half of updateStuck, evaluated on the enemy as the periodic
\* half left it: true when it calls unstick()
CollisionFires(e, dt) ==
  /\ Max(0, e.blockedCooldown - dt) = 0
  /\ e.blocked.left \/ e.blocked.right \/ e.blocked.up \/ e.blocked.down
  /\ Abs(e.velocity.x) > BlockedMinVel \/ Abs(e.velocity.y) > BlockedMinVel

\* updateStuck, the periodic position snapshot
StuckPeriodic(e, dt, rnd) ==
  LET t == e.stuckTimer + dt
  IN  IF t >= StuckInterval
      THEN LET u == IF PeriodicFires(e, dt) THEN Unstick(e, rnd) ELSE e
           IN  [u EXCEPT !.lastX = e.pos.x, !.lastY = e.pos.y, !.stuckTimer = 0]
      ELSE [e EXCEPT !.stuckTimer = t]

\* updateStuck, the immediate response to a wall collision
StuckCollision(e, dt, rnd) ==
  LET c == [e EXCEPT !.blockedCooldown = Max(0, e.blockedCooldown - dt)]
  IN  IF CollisionFires(e, dt)
      THEN [Unstick(c, rnd) EXCEPT !.blockedCooldown = BlockedCooldownMs]
      ELSE c

\* rnd1 and rnd2 are the two Math.random() draws of one update()
UpdateStuck(e, dt, rnd1, rnd2) ==
  CHOOSE r \in { StuckCollision(p, dt, rnd2) :
                   p \in {StuckPeriodic(e, dt, rnd1)} } : TRUE

(***************************************************************************)
(* State handlers                                                          *)
(***************************************************************************)
\* UpdatePatrol that steps past the last waypoint
UpdatePatrol_NoWrap(e) ==
  IF Len(e.waypoints) = 0 THEN e
  ELSE LET wp == e.waypoints[e.waypointIndex + 1]
           dx == wp.x - e.pos.x
           dy == wp.y - e.pos.y
       IN  IF DistSq(dx, dy) < WAYPOINT_ARRIVE_DIST * WAYPOINT_ARRIVE_DIST
           THEN [e EXCEPT !.waypointIndex = e.waypointIndex + 1]
           ELSE MoveToward(e, wp.x, wp.y, patrolSpeed)
UpdatePatrol(e) ==
  IF Len(e.waypoints) = 0 THEN e
  ELSE LET wp == e.waypoints[e.waypointIndex + 1]
           dx == wp.x - e.pos.x
           dy == wp.y - e.pos.y
       IN  IF DistSq(dx, dy) < WAYPOINT_ARRIVE_DIST * WAYPOINT_ARRIVE_DIST
           THEN [e EXCEPT !.waypointIndex =
                            (e.waypointIndex + 1) % Len(e.waypoints)]
           ELSE MoveToward(e, wp.x, wp.y, patrolSpeed)

\* UpdateSearch running the countdown down on every tick, arrived or not
UpdateSearch_CountsEverywhere(e, dt) ==
  LET dx == e.lastSeenPos.x - e.pos.x
      dy == e.lastSeenPos.y - e.pos.y
      t  == e.searchTimer - dt
      c  == [e EXCEPT !.searchTimer = t,
                      !.state = IF t <= 0 THEN "PATROL" ELSE @]
  IN  IF DistSq(dx, dy) > WAYPOINT_ARRIVE_DIST * WAYPOINT_ARRIVE_DIST
      THEN MoveToward(c, e.lastSeenPos.x, e.lastSeenPos.y, patrolSpeed)
      ELSE [c EXCEPT !.velocity = Pt(0, 0)]

UpdateSearch(e, dt) ==
  LET dx == e.lastSeenPos.x - e.pos.x
      dy == e.lastSeenPos.y - e.pos.y
  IN  IF DistSq(dx, dy) > WAYPOINT_ARRIVE_DIST * WAYPOINT_ARRIVE_DIST
      THEN MoveToward(e, e.lastSeenPos.x, e.lastSeenPos.y, patrolSpeed)
      ELSE LET t == e.searchTimer - dt
           IN  [e EXCEPT !.velocity = Pt(0, 0),
                         !.searchTimer = t,
                         !.state = IF t <= 0 THEN "PATROL" ELSE @]

(***************************************************************************)
(* Main update                                                             *)
(***************************************************************************)
\* Stun that leaves a running stun timer alone
Stun_KeepsTimer(e) ==
  IF e.state = "STUNNED" THEN e
  ELSE [e EXCEPT !.state = "STUNNED", !.stunTimer = POOP_STUN_DURATION_MS]
Stun(e) ==
  [e EXCEPT !.state = "STUNNED", !.stunTimer = POOP_STUN_DURATION_MS]

\* update(), STUNNED branch (the early return)
\* UpdateStunned lapsing only once the timer is strictly below zero
UpdateStunned_StrictLapse(e, dt) ==
  LET t  == e.stunTimer - dt
      e1 == [e EXCEPT !.stunTimer = t,
                      !.state = IF t < 0 THEN "PATROL" ELSE @]
      wp == IF e1.waypointIndex + 1 \in 1..Len(e1.waypoints)
            THEN e1.waypoints[e1.waypointIndex + 1]
            ELSE Pt(e1.pos.x, e1.pos.y)
  IN  MoveToward(e1, wp.x, wp.y, ENEMY_STUNNED_SPEED)

UpdateStunned(e, dt) ==
  LET t  == e.stunTimer - dt
      e1 == [e EXCEPT !.stunTimer = t,
                      !.state = IF t <= 0 THEN "PATROL" ELSE @]
      wp == IF e1.waypointIndex + 1 \in 1..Len(e1.waypoints)
            THEN e1.waypoints[e1.waypointIndex + 1]
            ELSE Pt(e1.pos.x, e1.pos.y)
  IN  MoveToward(e1, wp.x, wp.y, ENEMY_STUNNED_SPEED)

\* VisionStep pausing the search countdown: an entry into SEARCH resumes a
\* countdown that had not run out
VisionStep_ResumesCountdown(e, dt, playerX, playerY) ==
  IF CanSeePlayer(e, playerX, playerY)
  THEN [e EXCEPT !.state = "CHASE",
                 !.lastSeenPos = Pt(playerX, playerY),
                 !.losTimer = 0]
  ELSE IF e.state = "CHASE"
  THEN LET t == e.losTimer + dt
       IN  IF t >= LOS_LOST_TIMEOUT_MS
           THEN [e EXCEPT !.state = "SEARCH",
                          !.searchTimer = IF @ > 0 THEN @
                                          ELSE SEARCH_DURATION_MS,
                          !.losTimer = 0]
           ELSE [e EXCEPT !.losTimer = t]
  ELSE e

\* VisionStep with the loss timer running in every unseeing state, not only
\* in CHASE
VisionStep_AnyState(e, dt, playerX, playerY) ==
  IF CanSeePlayer(e, playerX, playerY)
  THEN [e EXCEPT !.state = "CHASE",
                 !.lastSeenPos = Pt(playerX, playerY),
                 !.losTimer = 0]
  ELSE LET t == e.losTimer + dt
       IN  IF t >= LOS_LOST_TIMEOUT_MS
           THEN [e EXCEPT !.state = "SEARCH",
                          !.searchTimer = SEARCH_DURATION_MS,
                          !.losTimer = 0]
           ELSE [e EXCEPT !.losTimer = t]

\* VisionStep recording Last-Seen only on entering CHASE
VisionStep_StaleLastSeen(e, dt, playerX, playerY) ==
  IF CanSeePlayer(e, playerX, playerY)
  THEN [e EXCEPT !.state = "CHASE",
                 !.lastSeenPos = IF e.state = "CHASE" THEN @
                                 ELSE Pt(playerX, playerY),
                 !.losTimer = 0]
  ELSE IF e.state = "CHASE"
  THEN LET t == e.losTimer + dt
       IN  IF t >= LOS_LOST_TIMEOUT_MS
           THEN [e EXCEPT !.state = "SEARCH",
                          !.searchTimer = SEARCH_DURATION_MS,
                          !.losTimer = 0]
           ELSE [e EXCEPT !.losTimer = t]
  ELSE e

\* VisionStep that does not restart the loss timer when the target is seen
VisionStep_KeepsLosTimer(e, dt, playerX, playerY) ==
  IF CanSeePlayer(e, playerX, playerY)
  THEN [e EXCEPT !.state = "CHASE",
                 !.lastSeenPos = Pt(playerX, playerY)]
  ELSE IF e.state = "CHASE"
  THEN LET t == e.losTimer + dt
       IN  IF t >= LOS_LOST_TIMEOUT_MS
           THEN [e EXCEPT !.state = "SEARCH",
                          !.searchTimer = SEARCH_DURATION_MS,
                          !.losTimer = 0]
           ELSE [e EXCEPT !.losTimer = t]
  ELSE e

\* update(), the vision check and the canSee / loss-timer block
VisionStep(e, dt, playerX, playerY) ==
  IF CanSeePlayer(e, playerX, playerY)
  THEN [e EXCEPT !.state = "CHASE",
                 !.lastSeenPos = Pt(playerX, playerY),
                 !.losTimer = 0]
  ELSE IF e.state = "CHASE"
  THEN LET t == e.losTimer + dt
       IN  IF t >= LOS_LOST_TIMEOUT_MS
           THEN [e EXCEPT !.state = "SEARCH",
                          !.searchTimer = SEARCH_DURATION_MS,
                          !.losTimer = 0]
           ELSE [e EXCEPT !.losTimer = t]
  ELSE e

\* update(), the switch over the state
StateStep(e, dt, playerX, playerY) ==
  CASE e.state = "PATROL" -> UpdatePatrol(e)
    [] e.state = "CHASE"  -> MoveToward(e, playerX, playerY, chaseSpeed)
    [] e.state = "SEARCH" -> UpdateSearch(e, dt)
    [] OTHER -> e

\* UpdateEnemy running the stuck detection in the STUNNED branch as well
UpdateEnemy_StuckWhileStunned(e, dt, playerX, playerY, rnd1, rnd2) ==
  IF e.state = "STUNNED"
  THEN CHOOSE r \in { UpdateStuck(s, dt, rnd1, rnd2) :
                        s \in {UpdateStunned(e, dt)} } : TRUE
  ELSE CHOOSE r \in
         { UpdateStuck(s, dt, rnd1, rnd2) :
             s \in { StateStep(v, dt, playerX, playerY) :
                       v \in {VisionStep(e, dt, playerX, playerY)} } } : TRUE

\* UpdateEnemy looking for the target again in the tick the stun lapses
UpdateEnemy_SeesOnLapse(e, dt, playerX, playerY, rnd1, rnd2) ==
  IF e.state = "STUNNED"
  THEN LET s == UpdateStunned(e, dt)
       IN  IF s.state = "PATROL" THEN VisionStep(s, dt, playerX, playerY)
                                 ELSE s
  ELSE CHOOSE r \in
         { UpdateStuck(s, dt, rnd1, rnd2) :
             s \in { StateStep(v, dt, playerX, playerY) :
                       v \in {VisionStep(e, dt, playerX, playerY)} } } : TRUE

\* each stage of update() is bound to its value before the next one uses it
UpdateEnemy(e, dt, playerX, playerY, rnd1, rnd2) ==
  IF e.state = "STUNNED"
  THEN UpdateStunned(e, dt)
  ELSE CHOOSE r \in
         { UpdateStuck(s, dt, rnd1, rnd2) :
             s \in { StateStep(v, dt, playerX, playerY) :
                       v \in {VisionStep(e, dt, playerX, playerY)} } } : TRUE

(***************************************************************************)
(* The pursuer as one record, and the frame loop                           *)
(***************************************************************************)
Self ==
  [ state |-> state, waypointIndex |-> waypointIndex,
    facingAngle |-> facingAngle, lastSeenPos |-> lastSeenPos,
    losTimer |-> losTimer, searchTimer |-> searchTimer,
    stunTimer |-> stunTimer, obstacles |-> obstacles,
    waypoints |-> waypoints, lastX |-> lastX, lastY |-> lastY,
    stuckTimer |-> stuckTimer, blockedCooldown |-> blockedCooldown,
    pos |-> pos, velocity |-> velocity, blocked |-> blocked ]

\* assignment of the fields of record e to the primed variables
Becomes(e) ==
  /\ state' = e.state
  /\ waypointIndex' = e.waypointIndex
  /\ facingAngle' = e.facingAngle
  /\ lastSeenPos' = e.lastSeenPos
  /\ losTimer' = e.losTimer
  /\ searchTimer' = e.searchTimer
  /\ stunTimer' = e.stunTimer
  /\ obstacles' = e.obstacles
  /\ waypoints' = e.waypoints
  /\ lastX' = e.lastX
  /\ lastY' = e.lastY
  /\ stuckTimer' = e.stuckTimer
  /\ blockedCooldown' = e.blockedCooldown
  /\ pos' = e.pos
  /\ velocity' = e.velocity
  /\ blocked' = e.blocked

NoTarget == Pt(-1, -1)

\* no geometric query has been made
NoProbe == [fn |-> "none"]

NotBlocked == [left |-> FALSE, right |-> FALSE, up |-> FALSE, down |-> FALSE]

\* new Enemy(scene, x, y) followed by setObstacles / setWaypoints, as
\* GameScene.create does for every pursuer before the first frame
\* new Enemy(...), setObstacles, setWaypoints
Created ==
  /\ state = "PATROL"
  /\ waypointIndex = 0
  /\ facingAngle = 0
  /\ lastSeenPos = Pt(0, 0)
  /\ losTimer = 0
  /\ searchTimer = 0
  /\ stunTimer = 0
  /\ \E lv \in Levels : obstacles = lv.obstacles /\ waypoints = lv.waypoints
  /\ lastX = 0
  /\ lastY = 0
  /\ stuckTimer = 0
  /\ blockedCooldown = 0
  /\ \E sx \in StartXs : pos = Pt(sx, 0)
  /\ velocity = Pt(0, 0)
  /\ blocked = NotBlocked
  /\ delta = 0
  /\ sighted = NoTarget
  /\ lastOp = "create"
  /\ startState = "PATROL"
  /\ midState = "PATROL"
  /\ canSee = "skipped"
  /\ unseenMs = 0
  /\ sinceStunMs = 0
  /\ patrolMark = -1
  /\ searchBefore = 0
  /\ stunBefore = 0

\* no session: the specifications of the pursuer and of the helper
NoGame == [scene |-> "none"]

\* no recovery has been observed
NoRecovery == [agent |-> "none"]

\* no level is running
NoLevel == [axol |-> "none"]

\* GameScene.create: this.axol = null
NoAxol == [spawned |-> FALSE]
NoAxolLog == [op |-> "none"]

NotSpawned ==
  /\ axol = NoAxol
  /\ treats = << >>
  /\ world = Rect(0, 0, WorldWidth, 0)
  /\ axolLog = NoAxolLog

Init ==
  /\ Created
  /\ probe = NoProbe
  /\ NotSpawned
  /\ game = NoGame
  /\ recovery = NoRecovery
  /\ level = NoLevel

\* displacement of a body moving at v px/s for dt ms; the world step is
\* resolved on a grid of 10 px
Travel(v, dt) == Sign(v) * (((Abs(v) * dt) \div 10000) * 10)

\* the farthest the body centre can go to the right / left of x before it
\* touches a solid rectangle or the world bounds
RightLimit(e) ==
  LET faces == { e.obstacles[i].x - BodyHalfWidth :
                   i \in { j \in 1..Len(e.obstacles) :
                             e.obstacles[j].x >= e.pos.x } }
                \cup { WorldWidth - BodyHalfWidth }
  IN  CHOOSE m \in faces : \A f \in faces : m <= f

LeftLimit(e) ==
  LET faces == { e.obstacles[i].x + e.obstacles[i].w + BodyHalfWidth :
                   i \in { j \in 1..Len(e.obstacles) :
                             e.obstacles[j].x + e.obstacles[j].w <= e.pos.x } }
                \cup { BodyHalfWidth }
  IN  CHOOSE m \in faces : \A f \in faces : m >= f

\* one arcade-physics world step of dt ms: the body advances by its velocity,
\* is stopped by the colliders (walls, furniture, world bounds), reports the
\* sides on which it was stopped in body.blocked, and loses the velocity
\* component it was stopped on
WorldStep(e, dt) ==
  LET want == e.pos.x + Travel(e.velocity.x, dt)
      newX == Max(LeftLimit(e), Min(RightLimit(e), want))
      b    == [left  |-> want < LeftLimit(e),
               right |-> want > RightLimit(e),
               up    |-> e.velocity.y < 0,
               down  |-> e.velocity.y > 0]
  IN  [e EXCEPT !.pos = Pt(newX, e.pos.y),
                !.blocked = b,
                !.velocity = Pt(IF b.left \/ b.right THEN 0 ELSE e.velocity.x, 0)]

\* the poop overlap callback: enemy.stun()
StunAction ==
  /\ Becomes(Stun(Self))
  /\ lastOp' = "stun"
  /\ startState' = state
  /\ midState' = "STUNNED"
  /\ canSee' = "skipped"
  /\ delta' = 0
  /\ sighted' = NoTarget
  /\ unseenMs' = 0
  /\ sinceStunMs' = 0
  /\ patrolMark' = -1
  /\ searchBefore' = searchTimer
  /\ stunBefore' = stunTimer
  /\ UNCHANGED << probe, axolVars, restVars >>

\* one frame of the game loop: the world step moves the body, then
\* GameScene.update calls enemy.update(delta, t.x, t.y)
\* (when both recoveries of one update() fire, the second overwrites the
\* velocity the first one set, so one draw rnd stands for both)
FrameStep(dt, tx, rnd) ==
  /\ lastOp' = "update"
  /\ delta' = dt
  /\ startState' = state
  /\ \E e \in {WorldStep(Self, dt)} :
     \E saw \in {CanSeePlayer(e, tx, 0)} :
     \E v \in {VisionStep(e, dt, tx, 0)} :
     \E n \in {UpdateEnemy(e, dt, tx, 0, rnd, rnd)} :
      /\ sighted' = IF saw THEN Pt(tx, 0) ELSE NoTarget
      /\ Becomes(n)
      /\ midState' = IF state = "STUNNED" THEN "STUNNED" ELSE v.state
      /\ canSee' = IF state = "STUNNED" THEN "skipped"
                   ELSE IF saw THEN "yes" ELSE "no"
      /\ unseenMs' = IF state = "CHASE" /\ ~saw THEN unseenMs + dt ELSE 0
      /\ sinceStunMs' = IF state = "STUNNED" THEN sinceStunMs + dt ELSE 0
      /\ patrolMark' = IF state = "PATROL"
                       THEN (IF n.state = "CHASE" THEN waypointIndex ELSE -1)
                       ELSE patrolMark
      /\ searchBefore' = searchTimer
      /\ stunBefore' = stunTimer

\* a frame in which only the pursuer is watched
Frame(dt, tx, rnd) ==
  /\ FrameStep(dt, tx, rnd)
  /\ UNCHANGED << probe, axolVars, restVars >>

Next ==
  \/ StunAction
  \/ \E dt \in Deltas, tx \in TargetXs, rnd \in RandomOffsets :
       Frame(dt, tx, rnd)

Spec == Init /\ [][Next]_vars

\* the game loop calls update() on every frame for as long as the scene runs,
\* and Math.random() is no adversary: every draw keeps turning up
FairSpec ==
  Spec /\ \A rnd \in RandomOffsets :
            WF_vars(\E dt \in Deltas, tx \in TargetXs : Frame(dt, tx, rnd))

TypeOK ==
  /\ state \in States
  /\ waypointIndex \in Nat
  /\ lastOp \in {"create", "stun", "update"}

(***************************************************************************)
(* The helper ("Axol"): line of sight                                      *)
(***************************************************************************)
\* hasLOS: the margin by which every obstacle is inflated
INF == 4

\* fractions n / d with d > 0
RatLt(a, b) == a[1] * b[2] < b[1] * a[2]
RatMax(a, b) == IF RatLt(a, b) THEN b ELSE a
RatMin(a, b) == IF RatLt(b, a) THEN b ELSE a

\* the loop of segmentIntersectsAABB over its four checks [p, q], from check
\* i on, with the parameter window [t0, t1] narrowed so far
RECURSIVE ClipFrom(_, _, _, _)
ClipFrom(checks, i, t0, t1) ==
  IF i > Len(checks) THEN TRUE
  ELSE LET pp == checks[i][1]
           q  == checks[i][2]
       IN  IF pp = 0
           THEN (IF q < 0 THEN FALSE ELSE ClipFrom(checks, i + 1, t0, t1))
           ELSE LET t  == IF pp > 0 THEN << q, pp >> ELSE << -q, -pp >>
                    n0 == IF pp < 0 THEN RatMax(t0, t) ELSE t0
                    n1 == IF pp < 0 THEN t1 ELSE RatMin(t1, t)
                IN  IF RatLt(n1, n0) THEN FALSE
                    ELSE ClipFrom(checks, i + 1, n0, n1)

\* Liang-Barsky segment against an axis-aligned box
SegmentIntersectsAABB(x1, y1, x2, y2, left, top, right, bottom) ==
  LET dx == x2 - x1
      dy == y2 - y1
      checks == << << -dx, x1 - left >>, << dx, right - x1 >>,
                   << -dy, y1 - top >>,  << dy, bottom - y1 >> >>
  IN  ClipFrom(checks, 1, << 0, 1 >>, << 1, 1 >>)

\* HasLOSFrom answering from the first obstacle it looks at
HasLOSFrom_FirstOnly(obs, i, ax, ay, tx, ty) ==
  IF i > Len(obs) THEN TRUE
  ELSE LET r == obs[i]
       IN  ~SegmentIntersectsAABB(ax, ay, tx, ty, r.x - INF, r.y - INF,
                                  r.x + r.w + INF, r.y + r.h + INF)

\* the loop of hasLOS over the obstacles, from obstacle i on
RECURSIVE HasLOSFrom(_, _, _, _, _, _)
HasLOSFrom(obs, i, ax, ay, tx, ty) ==
  IF i > Len(obs) THEN TRUE
  ELSE LET r == obs[i]
       IN  IF SegmentIntersectsAABB(ax, ay, tx, ty, r.x - INF, r.y - INF,
                                    r.x + r.w + INF, r.y + r.h + INF)
           THEN FALSE
           ELSE HasLOSFrom(obs, i + 1, ax, ay, tx, ty)

HasLOS(obs, ax, ay, tx, ty) == HasLOSFrom(obs, 1, ax, ay, tx, ty)

(***************************************************************************)
(* The geometric queries on their own                                      *)
(***************************************************************************)
\* the bearings Atan2Deg knows: along an axis or a diagonal
Compass(dx, dy) == dx = 0 \/ dy = 0 \/ Abs(dx) = Abs(dy)

Look(p, f, t, obs) ==
  [fn |-> "canSeePlayer", pos |-> p, facingAngle |-> f, target |-> t,
   obstacles |-> obs, done |-> FALSE, result |-> FALSE]

\* the cone and range boundary, nothing in the way
BoundaryLooks ==
  { Look(Pt(0, 0), a + d, t, << >>) :
      a \in {0, 90, 180, -90},
      d \in {-VISION_HALF_ANGLE_DEG - 1, -VISION_HALF_ANGLE_DEG, 0,
              VISION_HALF_ANGLE_DEG, VISION_HALF_ANGLE_DEG + 1},
      t \in {Pt(VISION_RANGE, 0), Pt(VISION_RANGE + 1, 0), Pt(0, VISION_RANGE),
              Pt(0, -VISION_RANGE - 1), Pt(-VISION_RANGE, 0)} }

\* one rectangle on a small grid, the observer and the target anywhere on it
Block == Rect(3, 3, 3, 2)
GridPts == { Pt(x, y) : x \in 0..GridMax, y \in 0..GridMax }
CompassPairs ==
  { pr \in GridPts \X GridPts : Compass(pr[2].x - pr[1].x, pr[2].y - pr[1].y) }
OcclusionLooks ==
  { Look(pr[1], f, pr[2], << Block >>) :
      pr \in CompassPairs, f \in {0, 45, 90, 180, -90, -135} }

\* the 100 x 50 rectangle at (200, 200) and the pursuer at (100, 200)
ScenarioLooks ==
  { Look(Pt(100, 200), f, t, << Rect(200, 200, 100, 50) >>) :
      f \in {0, 90}, t \in {Pt(400, 200), Pt(100, 400), Pt(340, 200)} }

Sight(a, t, obs) ==
  [fn |-> "hasLOS", from |-> a, to |-> t, obstacles |-> obs,
   done |-> FALSE, result |-> FALSE]

Crate == Rect(10, 10, 4, 4)
Shelf == Rect(20, 0, 2, 8)
LosPts == { Pt(x, y) : x \in LosCoords, y \in LosCoords }
ObstacleLists ==
  { << >>, << Crate >>, << Shelf >>, << Crate, Shelf >>, << Shelf, Crate >>,
    << Shelf, Crate, Shelf >> }
Sights == { Sight(a, t, obs) : a \in LosPts, t \in LosPts, obs \in ObstacleLists }

\* one call of updateStuck's periodic check: a pursuer in a moving state that
\* has, or has not, moved since the last snapshot, and the Math.random() draw
Stall(st, wps, i, f, moved, rnd) ==
  [fn |-> "updateStuck", state |-> st, waypoints |-> wps, waypointIndex |-> i,
   facingAngle |-> f, velocity |-> Pt(7, 0), moved |-> moved, rnd |-> rnd,
   done |-> FALSE, result |-> << >>]

Routes == { << >>, << Pt(20, 0), Pt(120, 0) >>,
            << Pt(20, 0), Pt(120, 0), Pt(120, 80) >> }
Facings == { -90, 0, 90, 180 }
Stalls ==
  { Stall(st, wps, i, f, moved, rnd) :
      st \in { "PATROL", "CHASE", "SEARCH" },
      wps \in Routes, i \in 0 .. 2, f \in Facings, moved \in { 0, 5 },
      rnd \in RandomOffsets }

\* the pursuer the probe describes, one delta short of a periodic check
Stalled(q) ==
  [Self EXCEPT !.state = q.state, !.waypoints = q.waypoints,
               !.waypointIndex = q.waypointIndex,
               !.facingAngle = q.facingAngle, !.velocity = q.velocity,
               !.pos = Pt(50, 50), !.lastX = 50 - q.moved, !.lastY = 50,
               !.stuckTimer = 0]

QueryInit ==
  /\ Created
  /\ NotSpawned
  /\ game = NoGame
  /\ recovery = NoRecovery
  /\ level = NoLevel
  /\ probe \in BoundaryLooks \cup OcclusionLooks \cup ScenarioLooks \cup Sights
                \cup { q \in Stalls : q.waypointIndex < Max(1, Len(q.waypoints)) }

\* Enemy.canSeePlayer on a pursuer placed as the probe says
CanSeeQuery ==
  /\ probe.fn = "canSeePlayer"
  /\ ~probe.done
  /\ probe' = [probe EXCEPT
       !.done = TRUE,
       !.result = CanSeePlayer([Self EXCEPT !.pos = probe.pos,
                                            !.facingAngle = probe.facingAngle,
                                            !.obstacles = probe.obstacles],
                               probe.target.x, probe.target.y)]
  /\ UNCHANGED << enemyVars, axolVars, restVars >>

\* Axol.hasLOS
HasLOSQuery ==
  /\ probe.fn = "hasLOS"
  /\ ~probe.done
  /\ probe' = [probe EXCEPT
       !.done = TRUE,
       !.result = HasLOS(probe.obstacles, probe.from.x, probe.from.y,
                         probe.to.x, probe.to.y)]
  /\ UNCHANGED << enemyVars, axolVars, restVars >>

\* the periodic half of Enemy.updateStuck, 500 ms after the last snapshot
StuckQuery ==
  /\ probe.fn = "updateStuck"
  /\ ~probe.done
  /\ probe' = [probe EXCEPT
       !.done = TRUE,
       !.result = StuckPeriodic(Stalled(probe), StuckInterval, probe.rnd)]
  /\ UNCHANGED << enemyVars, axolVars, restVars >>

QueryNext == CanSeeQuery \/ HasLOSQuery \/ StuckQuery

QuerySpec == QueryInit /\ [][QueryNext]_vars

(***************************************************************************)
(* The helper (Axol): its update loop                                      *)
(***************************************************************************)
\* Math.round(ROSWELL_CHASE_SPEED * 1.01)
speed == (ROSWELL_CHASE_SPEED * 101 + 50) \div 100

AxolBodyWidth == 20
AxolBodyHeight == 14
ShadowDrop == 6
AxolStuckInterval == 450
AxolStuckMinMove == 2
AxolBlockedCooldownMs == 300
AxolBlockedMinVel == 10
PUSH == 3
DetourArriveDist == 24
DetourTimeoutMs == 700
D == 110
LastResort == 160
STEP == 16
MAX_R == 300
ANGLE_STEPS == 16

\* sprite.body.velocity after setVelocity: a vector of length `speed` pointing
\* at `toward`, turned by `offset` degrees; Halted is setVelocity(0, 0)
Halted == [speed |-> 0, toward |-> Pt(0, 0), offset |-> 0]
Heading(tx, ty, off) == [speed |-> speed, toward |-> Pt(tx, ty), offset |-> off]

\* detourPoint: null, or a point
NoDetour == [set |-> FALSE, x |-> 0, y |-> 0]
Detour(x, y) == [set |-> TRUE, x |-> x, y |-> y]

\* the whole number nearest to n / d, for d > 0
RoundDiv(n, d) == Sign(n) * ((2 * Abs(n) + d) \div (2 * d))

\* b * b * n > a * a for naturals a, n < 2^20 and b > 0, kept within 32 bits:
\* with a = b * q + r the comparison is (n - q * q) * b * b > 2 * b * q * r + r * r
SquareExceeds(b, n, a) ==
  LET q == a \div b
      r == a % b
  IN  IF q > 30000 THEN FALSE
      ELSE IF n - q * q > 2 * q THEN TRUE
      ELSE IF n - q * q < 0 THEN FALSE
      ELSE (n - q * q) * b * b > 2 * b * q * r + r * r

\* the least j in lo..hi with ((2j + 1) / 2)^2 * n > (a / 2)^2, by bisection
RECURSIVE LeastExceeding(_, _, _, _)
LeastExceeding(lo, hi, n, a) ==
  IF lo = hi THEN lo
  ELSE LET mid == (lo + hi) \div 2
       IN  IF SquareExceeds(2 * mid + 1, n, a)
           THEN LeastExceeding(lo, mid, n, a)
           ELSE LeastExceeding(mid + 1, hi, n, a)

\* the whole number nearest to c * dist / sqrt(c * c + o * o): one component
\* of a unit vector, scaled by dist and taken to the nearest pixel
Scaled(c, o, dist) ==
  Sign(c) * LeastExceeding(0, dist, c * c + o * o, 2 * Abs(c) * dist)

\* Math.cos of i sixteenths of a turn, in thousandths
CosMilli ==
  << 1000, 924, 707, 383, 0, -383, -707, -924,
     -1000, -924, -707, -383, 0, 383, 707, 924 >>
CosStep(i) == CosMilli[(i % ANGLE_STEPS) + 1]
SinStep(i) == CosMilli[((i + 3 * (ANGLE_STEPS \div 4)) % ANGLE_STEPS) + 1]

\* two boxes overlap: the test of isEmbedded and isSafePosition
Overlaps(bx, by, bw, bh, r) ==
  bx < r.x + r.w /\ bx + bw > r.x /\ by < r.y + r.h /\ by + bh > r.y

\* sprite.body.x / y of a body centred on the sprite
BodyX(a) == a.pos.x - AxolBodyWidth \div 2
BodyY(a) == a.pos.y - AxolBodyHeight \div 2

IsEmbedded(a) ==
  \E i \in 1..Len(a.obstacles) :
     Overlaps(BodyX(a), BodyY(a), AxolBodyWidth, AxolBodyHeight, a.obstacles[i])

IsSafePosition(a, wb, cx, cy) ==
  LET hw == AxolBodyWidth \div 2
      hh == AxolBodyHeight \div 2
      bx == cx - hw
      by == cy - hh
      bw == hw * 2
      bh == hh * 2
  IN  IF bx < wb.x \/ bx + bw > wb.x + wb.w \/ by < wb.y \/ by + bh > wb.y + wb.h
      THEN FALSE
      ELSE ~\E i \in 1..Len(a.obstacles) : Overlaps(bx, by, bw, bh, a.obstacles[i])

\* sprite.body.reset(x, y): the body is moved and its velocity zeroed
BodyReset(a, x, y) == [a EXCEPT !.pos = Pt(x, y), !.velocity = Halted]

\* the candidates of the outward search in the order the loops visit them
SpiralCount == (MAX_R \div STEP) * ANGLE_STEPS
SpiralPoint(a, n) ==
  LET r == STEP * ((n \div ANGLE_STEPS) + 1)
      i == n % ANGLE_STEPS
  IN  Pt(a.pos.x + RoundDiv(CosStep(i) * r, 1000),
         a.pos.y + RoundDiv(SinStep(i) * r, 1000))

SnapToSafePosition(a, wb) ==
  LET halted == [a EXCEPT !.velocity = Halted]
      found  == { n \in 0..(SpiralCount - 1) :
                    LET c == SpiralPoint(a, n) IN IsSafePosition(a, wb, c.x, c.y) }
  IN  IF IsSafePosition(a, wb, a.lastSafe.x, a.lastSafe.y)
      THEN BodyReset(halted, a.lastSafe.x, a.lastSafe.y)
      ELSE IF found = {} THEN halted
      ELSE LET first == CHOOSE n \in found : \A m \in found : n <= m
               c     == SpiralPoint(a, first)
           IN  [BodyReset(halted, c.x, c.y) EXCEPT !.lastSafe = c]

\* the embedded check at the head of update()
CorrectEmbedding(a, wb) ==
  IF Len(a.obstacles) > 0 /\ IsEmbedded(a)
  THEN SnapToSafePosition(a, wb)
  ELSE [a EXCEPT !.lastSafe = a.pos]

\* Math.random() - 0.5, times 60 degrees: the draws tried
AngleOffsets == {-30, 0}

\* sqrt(3) * dx >= s, on squares
Sqrt3Ge(dx, s) ==
  IF dx >= 0 THEN s <= 0 \/ 3 * dx * dx >= s * s
  ELSE s < 0 /\ 3 * dx * dx <= s * s

\* Math.cos(Math.atan2(dy, dx) + off) >= 0 for the offsets drawn
FacesRight(dx, dy, off) ==
  IF off = 0 THEN dx >= 0 ELSE Sqrt3Ge(dx, -dy)

SteerToward(a, tx, ty, off) ==
  LET dx == tx - a.pos.x
      dy == ty - a.pos.y
  IN  IF DistSq(dx, dy) < 1
      THEN [a EXCEPT !.velocity = Halted]
      ELSE [a EXCEPT !.velocity = Heading(tx, ty, off),
                     !.facingRight = FacesRight(dx, dy, off)]

\* the first of the candidates (indices into the treat list) at the least
\* squared distance from the sprite; 0 is null
Nearest(a, ts, cands) ==
  LET dSq(i) == DistSq(ts[i].x - a.pos.x, ts[i].y - a.pos.y)
      best   == { i \in cands : \A j \in cands : dSq(i) <= dSq(j) }
  IN  IF cands = {} THEN 0
      ELSE CHOOSE i \in best : \A j \in best : i <= j

FindNearest(a, ts) ==
  Nearest(a, ts, { i \in 1..Len(ts) : ts[i].active })

FindNearestWithLOS(a, ts) ==
  Nearest(a, ts, { i \in 1..Len(ts) :
                     /\ ts[i].active
                     /\ HasLOS(a.obstacles, a.pos.x, a.pos.y, ts[i].x, ts[i].y) })

\* DropStaleTarget keeping whatever is held
DropStaleTarget_Keeps(a, ts) == a

\* update(): the held target is dropped when it is no longer active
DropStaleTarget(a, ts) ==
  IF a.currentTarget # 0 /\ ~ts[a.currentTarget].active
  THEN [a EXCEPT !.currentTarget = 0, !.detourPoint = NoDetour, !.detourTimer = 0]
  ELSE a

\* PickTarget choosing the nearest treat anew on every tick
PickTarget_AlwaysNearest(a, ts) ==
  [a EXCEPT !.currentTarget = FindNearest(a, ts),
            !.detourPoint = IF a.currentTarget = 0 THEN NoDetour ELSE @,
            !.detourTimer = IF a.currentTarget = 0 THEN 0 ELSE @]

\* update(): the nearest treat is picked when no target is held
PickTarget(a, ts) ==
  IF a.currentTarget = 0
  THEN [a EXCEPT !.currentTarget = FindNearest(a, ts),
                 !.detourPoint = NoDetour, !.detourTimer = 0]
  ELSE a

\* ComputeDetourPoint taking the first side whenever it is safe, whichever
\* side was taken last
ComputeDetourPoint_FirstSide(a, ts, wb) ==
  IF a.currentTarget = 0 THEN [a EXCEPT !.detourPoint = NoDetour]
  ELSE
    LET dx == ts[a.currentTarget].x - a.pos.x
        dy == ts[a.currentTarget].y - a.pos.y
    IN  IF DistSq(dx, dy) < 1 THEN [a EXCEPT !.detourPoint = NoDetour]
        ELSE
          LET pxD == Scaled(-dy, dx, D)
              pyD == Scaled(dx, dy, D)
              c1  == Detour(a.pos.x + pxD, a.pos.y + pyD)
              c2  == Detour(a.pos.x - pxD, a.pos.y - pyD)
              ok1 == IsSafePosition(a, wb, c1.x, c1.y)
              ok2 == IsSafePosition(a, wb, c2.x, c2.y)
          IN  IF ok1 THEN [a EXCEPT !.detourDir = 1, !.detourPoint = c1]
              ELSE IF ok2 THEN [a EXCEPT !.detourDir = -1, !.detourPoint = c2]
              ELSE [a EXCEPT !.detourPoint =
                      Detour(a.pos.x + Scaled(-dy, dx, LastResort),
                             a.pos.y + Scaled(dx, dy, LastResort))]

\* computeDetourPoint
ComputeDetourPoint(a, ts, wb) ==
  IF a.currentTarget = 0 THEN [a EXCEPT !.detourPoint = NoDetour]
  ELSE
    LET dx == ts[a.currentTarget].x - a.pos.x
        dy == ts[a.currentTarget].y - a.pos.y
    IN  IF DistSq(dx, dy) < 1 THEN [a EXCEPT !.detourPoint = NoDetour]
        ELSE
          LET pxD == Scaled(-dy, dx, D)
              pyD == Scaled(dx, dy, D)
              c1  == Detour(a.pos.x + pxD, a.pos.y + pyD)
              c2  == Detour(a.pos.x - pxD, a.pos.y - pyD)
              ok1 == IsSafePosition(a, wb, c1.x, c1.y)
              ok2 == IsSafePosition(a, wb, c2.x, c2.y)
          IN  IF a.detourDir = 1 /\ ok1 THEN [a EXCEPT !.detourPoint = c1]
              ELSE IF ok2 THEN [a EXCEPT !.detourDir = -1, !.detourPoint = c2]
              ELSE IF ok1 THEN [a EXCEPT !.detourDir = 1, !.detourPoint = c1]
              ELSE [a EXCEPT !.detourPoint =
                      Detour(a.pos.x + Scaled(-dy, dx, LastResort),
                             a.pos.y + Scaled(dx, dy, LastResort))]

\* DetourDue without the arrival test
DetourDue_NeverArrives(a, timer) ==
  ~a.detourPoint.set \/ timer > DetourTimeoutMs

\* updateDetour's test: a detour point must be computed now
DetourDue(a, timer) ==
  LET arrived == /\ a.detourPoint.set
                 /\ DistSq(a.pos.x - a.detourPoint.x, a.pos.y - a.detourPoint.y)
                      < DetourArriveDist * DetourArriveDist
  IN  ~a.detourPoint.set \/ arrived \/ timer > DetourTimeoutMs

UpdateDetour(a, dt, ts, wb) ==
  LET timer == a.detourTimer + dt
      b == IF DetourDue(a, timer)
           THEN [ComputeDetourPoint(a, ts, wb) EXCEPT !.detourTimer = 0]
           ELSE [a EXCEPT !.detourTimer = timer]
  IN  IF b.detourPoint.set
      THEN SteerToward(b, b.detourPoint.x, b.detourPoint.y, 0)
      ELSE b

\* which branch of the steering block of update() is taken
SteerMode(a, ts) ==
  IF HasLOS(a.obstacles, a.pos.x, a.pos.y,
            ts[a.currentTarget].x, ts[a.currentTarget].y) THEN "direct"
  ELSE IF FindNearestWithLOS(a, ts) # 0 THEN "alternative"
  ELSE "detour"

\* Steer leaving the detour point and its timer alone when it steers at an
\* alternative treat
Steer_KeepsDetour(a, dt, ts, wb) ==
  LET mode == SteerMode(a, ts)
      clear == [a EXCEPT !.detourPoint = NoDetour, !.detourTimer = 0]
  IN  IF mode = "direct"
      THEN SteerToward(clear, ts[a.currentTarget].x, ts[a.currentTarget].y, 0)
      ELSE IF mode = "alternative"
      THEN LET alt == FindNearestWithLOS(a, ts)
           IN  SteerToward(a, ts[alt].x, ts[alt].y, 0)
      ELSE UpdateDetour(a, dt, ts, wb)

\* update(): the steering block, for a helper that holds a target
Steer(a, dt, ts, wb) ==
  LET mode == SteerMode(a, ts)
      clear == [a EXCEPT !.detourPoint = NoDetour, !.detourTimer = 0]
  IN  IF mode = "direct"
      THEN SteerToward(clear, ts[a.currentTarget].x, ts[a.currentTarget].y, 0)
      ELSE IF mode = "alternative"
      THEN LET alt == FindNearestWithLOS(a, ts)
           IN  SteerToward(clear, ts[alt].x, ts[alt].y, 0)
      ELSE UpdateDetour(a, dt, ts, wb)

\* some component of the velocity exceeds the threshold: the larger component
\* of a vector of length s is at least s / sqrt(2)
ExceedsMinVel(v) == v.speed * v.speed > 2 * AxolBlockedMinVel * AxolBlockedMinVel

NudgeAwayFromWall(a, ts, off) ==
  LET b  == a.blocked
      nx == a.pos.x + (IF b.left THEN PUSH ELSE 0) - (IF b.right THEN PUSH ELSE 0)
      ny == a.pos.y + (IF b.up THEN PUSH ELSE 0) - (IF b.down THEN PUSH ELSE 0)
      moved == BodyReset(a, nx, ny)
  IN  IF a.currentTarget # 0
      THEN SteerToward(moved, ts[a.currentTarget].x, ts[a.currentTarget].y, off)
      ELSE moved

\* updateStuck: the periodic snapshot
AxolStuckPeriodic(a, dt, ts, off) ==
  LET timer == a.stuckTimer + dt
  IN  IF timer >= AxolStuckInterval
      THEN LET movedSq == DistSq(a.pos.x - a.last.x, a.pos.y - a.last.y)
               b == IF movedSq < AxolStuckMinMove * AxolStuckMinMove
                       /\ a.currentTarget # 0
                    THEN SteerToward(a, ts[a.currentTarget].x,
                                     ts[a.currentTarget].y, off)
                    ELSE a
           IN  [b EXCEPT !.last = a.pos, !.stuckTimer = 0]
      ELSE [a EXCEPT !.stuckTimer = timer]

\* updateStuck: the response to a wall collision
AxolStuckCollision(a, dt, ts, off) ==
  LET cd == Max(0, a.blockedCooldown - dt)
      b  == [a EXCEPT !.blockedCooldown = cd]
  IN  IF cd = 0
         /\ (a.blocked.left \/ a.blocked.right \/ a.blocked.up \/ a.blocked.down)
         /\ ExceedsMinVel(a.velocity)
      THEN [NudgeAwayFromWall(b, ts, off) EXCEPT
              !.blockedCooldown = AxolBlockedCooldownMs]
      ELSE b

AxolUpdateStuck(a, dt, ts, off1, off2) ==
  CHOOSE r \in { AxolStuckCollision(p, dt, ts, off2) :
                   p \in {AxolStuckPeriodic(a, dt, ts, off1)} } : TRUE

UpdateVisuals(a) ==
  [a EXCEPT !.flipX = ~a.facingRight,
            !.depth = a.pos.y,
            !.shadow = Pt(a.pos.x, a.pos.y + ShadowDrop)]

\* update(): from the embedded check to the choice of a target
ChooseTarget(a, ts, wb) ==
  CHOOSE r \in { PickTarget(d, ts) :
                   d \in { DropStaleTarget(c, ts) :
                             c \in {CorrectEmbedding(a, wb)} } } : TRUE

\* Axol.update(delta, treatGroup)
AxolUpdate(a, dt, ts, wb, off1, off2) ==
  IF ~a.alive THEN a
  ELSE CHOOSE r \in
         { IF t.currentTarget = 0
           THEN UpdateVisuals([t EXCEPT !.velocity = Halted])
           ELSE UpdateVisuals(AxolUpdateStuck(Steer(t, dt, ts, wb), dt, ts, off1, off2)) :
             t \in {ChooseTarget(a, ts, wb)} } : TRUE

\* Poof without its guard
Poof_Unguarded(a) ==
  [a EXCEPT !.alive = FALSE,
            !.velocity = Halted,
            !.bodyEnabled = FALSE,
            !.destroys = a.destroys + 1,
            !.smokes = a.smokes + 1]

\* Axol.poof()
Poof(a) ==
  IF ~a.alive THEN a
  ELSE [a EXCEPT !.alive = FALSE,
                 !.velocity = Halted,
                 !.bodyEnabled = FALSE,
                 !.destroys = a.destroys + 1,
                 !.smokes = a.smokes + 1]

\* new Axol(scene, x, y), then setObstacles(allObstacles)
SpawnAxol(x, y, obs) ==
  [spawned |-> TRUE, alive |-> TRUE, bodyEnabled |-> TRUE,
   pos |-> Pt(x, y), velocity |-> Halted, blocked |-> NotBlocked,
   facingRight |-> TRUE, flipX |-> FALSE, depth |-> y,
   shadow |-> Pt(x, y + ShadowDrop),
   currentTarget |-> 0, obstacles |-> obs,
   lastSafe |-> Pt(x, y), last |-> Pt(0, 0),
   stuckTimer |-> 0, blockedCooldown |-> 0,
   detourPoint |-> NoDetour, detourTimer |-> 0, detourDir |-> 1,
   destroys |-> 0, smokes |-> 1]

(***************************************************************************)
(* The helper in a scene                                                   *)
(***************************************************************************)
\* frame deltas fed to the helper
AxolDeltas == {200, 400}

Treat(x, y) == [x |-> x, y |-> y, active |-> TRUE]

\* a room with a pillar; a low corridor with a crate between the helper and
\* the only treat; a hall around one large block
Room ==
  [bounds |-> Rect(0, 0, 600, 400),
   obstacles |-> << Rect(200, 150, 40, 100) >>,
   treats |-> << Treat(320, 200), Treat(320, 350) >>,
   spawns |-> { Pt(100, 200) }]
Corridor ==
  [bounds |-> Rect(0, 0, 600, 100),
   obstacles |-> << Rect(200, 30, 40, 40) >>,
   treats |-> << Treat(320, 50) >>,
   spawns |-> { Pt(100, 50) }]
Hall ==
  [bounds |-> Rect(0, 0, 800, 800),
   obstacles |-> << Rect(80, 80, 640, 640) >>,
   treats |-> << Treat(40, 40) >>,
   spawns |-> { Pt(400, 400) }]
Scenes == { Room, Corridor, Hall }

\* where a collision or a stop may leave a moving sprite
AxolPlaces == { Pt(100, 50), Pt(100, 200), Pt(100, 330), Pt(220, 200) }

\* sprite.body.blocked as a physics step may leave it
Blockings ==
  { NotBlocked,
    [left |-> FALSE, right |-> TRUE, up |-> FALSE, down |-> TRUE] }

\* setCollideWorldBounds(true): the body stays inside the world bounds
InWorld(p, wb) ==
  /\ wb.x <= p.x - AxolBodyWidth \div 2
  /\ p.x + AxolBodyWidth \div 2 <= wb.x + wb.w
  /\ wb.y <= p.y - AxolBodyHeight \div 2
  /\ p.y + AxolBodyHeight \div 2 <= wb.y + wb.h

\* GameScene.spawnAxol(x, y) in a scene whose pursuer patrols
AxolInit ==
  /\ Created
  /\ waypoints # << >>
  /\ probe = NoProbe
  /\ \E sc \in Scenes : \E s \in sc.spawns :
       /\ axol = SpawnAxol(s.x, s.y, sc.obstacles)
       /\ treats = sc.treats
       /\ world = sc.bounds
  /\ axolLog = [op |-> "spawn"]
  /\ game = NoGame
  /\ recovery = NoRecovery
  /\ level = NoLevel

\* where a physics step may leave the sprite: a moving body ends somewhere in
\* the world, a body at rest or disabled stays where it is
Destinations(a, wb) ==
  IF a.bodyEnabled /\ a.velocity.speed > 0
  THEN { q \in AxolPlaces : InWorld(q, wb) }
  ELSE { a.pos }

\* the physics step that precedes the scene's update() in every frame
PhysicsStep(a, p, b) ==
  IF a.bodyEnabled THEN [a EXCEPT !.pos = p, !.blocked = b] ELSE a

\* observer: what update() went through on helper m
UpdateLog(m, dt) ==
  IF ~m.alive THEN [op |-> "update", mode |-> "dead"]
  ELSE LET t == ChooseTarget(m, treats, world)
       IN  [op |-> "update",
            delta |-> dt,
            stale |-> m.currentTarget # 0 /\ ~treats[m.currentTarget].active,
            mode |-> IF t.currentTarget = 0 THEN "idle" ELSE SteerMode(t, treats),
            held |-> t.currentTarget,
            from |-> t.pos,
            embedded |-> IsEmbedded(m),
            due |-> t.currentTarget # 0 /\ DetourDue(t, t.detourTimer + dt)]

\* one frame of the helper: the physics step, then
\* this.axol.update(delta, this.treatGroup)
AxolStep(dt, p, b, off1, off2) ==
  /\ axol.spawned
  /\ p \in Destinations(axol, world)
  /\ \E m \in {PhysicsStep(axol, p, b)} :
       /\ axol' = AxolUpdate(m, dt, treats, world, off1, off2)
       /\ axolLog' = UpdateLog(m, dt)

\* a frame in which only the helper is watched
AxolFrame(dt, p, b, off1, off2) ==
  /\ AxolStep(dt, p, b, off1, off2)
  /\ UNCHANGED << treats, world, enemyVars, probe, restVars >>

\* this.axol.poof()
AxolPoof ==
  /\ axol.spawned
  /\ axol' = Poof(axol)
  /\ axolLog' = [op |-> "poof", again |-> ~axol.alive]
  /\ UNCHANGED << treats, world, enemyVars, probe, restVars >>

\* treat.destroy() in an overlap callback: the treat is no longer active
TreatTaken(i) ==
  /\ axol.spawned
  /\ i \in 1..Len(treats)
  /\ treats[i].active
  /\ treats' = [treats EXCEPT ![i].active = FALSE]
  /\ axolLog' = [op |-> "taken"]
  /\ UNCHANGED << axol, world, enemyVars, probe, restVars >>

AxolNext ==
  \/ \E dt \in AxolDeltas, b \in Blockings, off \in AngleOffsets :
       \E p \in AxolPlaces \cup {axol.pos} : AxolFrame(dt, p, b, off, off)
  \/ AxolPoof
  \/ \E i \in 1..2 : TreatTaken(i)

AxolSpec == AxolInit /\ [][AxolNext]_vars

(***************************************************************************)
(* The session: scenes, levels, the player's poop charges and the mute     *)
(* flag.  GameScene.update is projected on the fields of the scene and of  *)
(* the player; the pursuers and the helper it also updates are the         *)
(* specifications above.                                                   *)
(***************************************************************************)
\* constants.ts
POOP_CHARGES_START == 3

\* LEVELS.length, LEVELS = [LEVEL1, LEVEL2, LEVEL3, LEVEL4]
LevelCount == 4

\* an optional value: absent (undefined) or one value
Absent == << >>
Some(v) == << v >>

\* new Phaser.Game(config): the first scene of the list, TitleScene, runs.
\* The sound manager either has a Web Audio context or has none, for the
\* whole session; the scene list of main.ts holds TitleScene, GameScene and
\* TransitionScene, the CreditsScene class exists besides: registered or not.
\*   levelData     GameScene's settings.data.level (0: never started)
\*   muted         GameScene's data manager entry 'muted'
\*   audioManager  GameScene.audioManager: absent, or its isMuted flag
\*   soundMute     this.sound.mute, the game-wide sound manager
\*   timer         the pending delayedCall of triggerWin
\*   poops         live members of player.poops; dropped counts dropPoop calls
Booted(webAudio, credits) ==
  [scene |-> "TitleScene", webAudio |-> webAudio, credits |-> credits,
   levelData |-> 0, levelNum |-> 1, isGameOver |-> FALSE,
   overlay |-> "none", timer |-> "none", completedLevel |-> 0,
   poopCharges |-> POOP_CHARGES_START, poops |-> 0, dropped |-> 0,
   muted |-> Absent, audioManager |-> Absent, soundMute |-> FALSE,
   op |-> "boot"]

\* AudioManager.toggleMute on a manager whose flag is m: the new flag, which
\* is also the value returned
ToggleMute(m) == ~m

\* GameScene.init(data) and create(), run by every start of the scene; data
\* is settings.data, which Systems.start replaces only when data is passed
\* (scene.restart() passes none).  The scene's data manager and the sound
\* manager outlive the shutdown; player, timers and poops do not.
StartGame_Forgets(g, num) ==
  [g EXCEPT !.scene = "GameScene", !.levelData = num, !.levelNum = num,
            !.isGameOver = FALSE, !.overlay = "none", !.timer = "none",
            !.poopCharges = POOP_CHARGES_START, !.poops = 0, !.dropped = 0,
            !.audioManager = IF g.webAudio THEN Some(FALSE) ELSE @]
StartGame(g, num) ==
  LET restore == g.webAudio /\ g.muted = Some(TRUE)
  IN  [g EXCEPT !.scene = "GameScene", !.levelData = num,
                !.levelNum = num,
                !.isGameOver = FALSE, !.overlay = "none", !.timer = "none",
                !.poopCharges = POOP_CHARGES_START, !.poops = 0,
                !.dropped = 0,
                !.audioManager = IF ~g.webAudio THEN @
                                 ELSE IF restore THEN Some(ToggleMute(FALSE))
                                 ELSE Some(FALSE),
                !.soundMute = IF restore THEN TRUE ELSE @]

\* Player.update, the part that follows the movement: a drop when Space went
\* down on this frame and a charge is left; dropPoop
PlayerUpdate_Unguarded(g, space) ==
  IF space
  THEN [g EXCEPT !.poopCharges = @ - 1, !.poops = @ + 1, !.dropped = @ + 1]
  ELSE g
PlayerUpdate(g, space) ==
  IF space /\ g.poopCharges > 0
  THEN [g EXCEPT !.poopCharges = @ - 1, !.poops = @ + 1, !.dropped = @ + 1]
  ELSE g

\* GameScene.triggerWin
TriggerWin_AlwaysTransition(g) ==
  IF g.isGameOver THEN g
  ELSE [g EXCEPT !.isGameOver = TRUE, !.timer = "transition"]
TriggerWin(g) ==
  IF g.isGameOver THEN g
  ELSE IF g.levelNum >= LevelCount
       THEN [g EXCEPT !.isGameOver = TRUE, !.overlay = "win",
                      !.timer = "credits"]
       ELSE [g EXCEPT !.isGameOver = TRUE, !.timer = "transition"]

\* GameScene.triggerLose, ui.showLose
TriggerLose_Unguarded(g) ==
  [g EXCEPT !.isGameOver = TRUE, !.overlay = "lose"]
TriggerLose(g) ==
  IF g.isGameOver THEN g
  ELSE [g EXCEPT !.isGameOver = TRUE, !.overlay = "lose"]

\* the callback GameScene.create hands to the UI
OnMuteToggle(g) ==
  LET m == IF g.audioManager = Absent THEN FALSE
           ELSE ToggleMute(g.audioManager[1])
  IN  [g EXCEPT !.audioManager = IF @ = Absent THEN @ ELSE Some(m),
                !.soundMute = m,
                !.muted = Some(m)]

\* the step of one handler of the session; op names the handler
Done(g, op) ==
  /\ game' = [g EXCEPT !.op = op]
  /\ UNCHANGED << enemyVars, probe, axolVars, recovery, level >>

InGame == game.scene = "GameScene"

\* TitleScene: launch, on the first pointer or key event
Launch ==
  /\ game.scene = "TitleScene"
  /\ Done(StartGame(game, 1), "launch")

\* one frame of GameScene.update
GameUpdate(space) ==
  /\ InGame
  /\ Done(IF game.isGameOver THEN game ELSE PlayerUpdate(game, space),
          "update")

\* the delayedCall of dropPoop: a poop that is still there is destroyed
PoopExpires ==
  /\ InGame
  /\ game.poops > 0
  /\ Done([game EXCEPT !.poops = @ - 1], "expire")

\* the overlap of the player with the last treat
LastTreat ==
  /\ InGame
  /\ Done(TriggerWin(game), "win")

\* the overlap of the player with a pursuer
Caught ==
  /\ InGame
  /\ Done(TriggerLose(game), "lose")

\* the delayedCall of triggerWin fires: scene.start stops this scene and
\* starts the named one, if the scene manager knows it
WinTimeout(g) ==
  IF g.timer = "transition"
  THEN [g EXCEPT !.scene = "TransitionScene", !.timer = "none",
                 !.completedLevel = g.levelNum]
  ELSE [g EXCEPT !.scene = IF g.credits THEN "CreditsScene" ELSE "none",
                 !.timer = "none"]

WinTimer ==
  /\ InGame
  /\ game.timer # "none"
  /\ Done(WinTimeout(game), "timer")

\* TransitionScene.startNext, from the button or from its 5 s delayedCall
StartNext ==
  /\ game.scene = "TransitionScene"
  /\ Done(StartGame(game, game.completedLevel + 1), "next")

\* the restart button of the lose overlay: scene.restart()
Restart ==
  /\ InGame
  /\ game.overlay = "lose"
  /\ Done(StartGame(game, game.levelData), "restart")

\* CreditsScene.goBack
GoBack ==
  /\ game.scene = "CreditsScene"
  /\ Done([game EXCEPT !.scene = "TitleScene"], "back")

\* the mute button or the M key
MuteToggle ==
  /\ InGame
  /\ Done(OnMuteToggle(game), "mute")

GameInit ==
  /\ Created
  /\ waypoints # << >>
  /\ probe = NoProbe
  /\ NotSpawned
  /\ recovery = NoRecovery
  /\ level = NoLevel
  /\ \E webAudio \in BOOLEAN, credits \in BOOLEAN :
       game = Booted(webAudio, credits)

GameNext ==
  \/ Launch
  \/ \E space \in BOOLEAN : GameUpdate(space)
  \/ PoopExpires
  \/ LastTreat
  \/ Caught
  \/ WinTimer
  \/ StartNext
  \/ Restart
  \/ GoBack
  \/ MuteToggle

GameSpec == GameInit /\ [][GameNext]_vars

\* the scene's clock runs while the scene does: a pending delayedCall fires,
\* and the transition scene's own 5 s timer calls startNext
GameFairSpec == GameSpec /\ WF_vars(WinTimer) /\ WF_vars(StartNext)

(***************************************************************************)
(* Stuck recovery over time: frames of a finer grain, with an observer of  *)
(* the recoveries of one agent and of the frame time between them          *)
(***************************************************************************)
\* the observer stops counting the time since an event at this many ms
RecoveryCap == 600

\* frame deltas below and above the cooldowns of both agents
FineDeltas == {200, 400}

\* where the target stays in these runs: near the left wall of the corridor,
\* so that a chase ends against the wall
FineTargets == {30}

\* the observer at the creation of the agent it watches: nothing has fired
Watching(agent) ==
  [agent |-> agent, delta |-> 0, collided |-> FALSE, checked |-> FALSE,
   sinceCollision |-> -1, sinceCheck |-> -1,
   collisionGap |-> -1, checkGap |-> -1]

\* frame time since an event, dt later; -1 while there was no such event
Elapsed(since, dt) ==
  IF since = -1 THEN -1 ELSE Min(since + dt, RecoveryCap)

\* the observer after an update(dt) of updateStuck: collided when the
\* collision recovery fired, checked when the periodic displacement check
\* ran; the gaps are the frame time since the previous event of the kind
Observe(r, dt, collided, checked) ==
  [agent |-> r.agent, delta |-> dt,
   collided |-> collided, checked |-> checked,
   sinceCollision |-> IF collided THEN 0 ELSE Elapsed(r.sinceCollision, dt),
   sinceCheck |-> IF checked THEN 0 ELSE Elapsed(r.sinceCheck, dt),
   collisionGap |-> IF collided THEN Elapsed(r.sinceCollision, dt) ELSE -1,
   checkGap |-> IF checked THEN Elapsed(r.sinceCheck, dt) ELSE -1]

\* one frame of the pursuer; the STUNNED branch returns before updateStuck
PursuerTick(dt, tx, rnd) ==
  /\ recovery.agent = "pursuer"
  /\ FrameStep(dt, tx, rnd)
  /\ \E e \in {WorldStep(Self, dt)} :
     \E v \in {VisionStep(e, dt, tx, 0)} :
     \E s \in {StateStep(v, dt, tx, 0)} :
     \E q \in {StuckPeriodic(s, dt, rnd)} :
       recovery' = Observe(recovery, dt,
                           state # "STUNNED" /\ CollisionFires(q, dt),
                           state # "STUNNED" /\
                             s.stuckTimer + dt >= StuckInterval)
  /\ UNCHANGED << probe, axolVars, game, level >>

\* one frame of the helper; update() returns before updateStuck when the
\* helper is gone or holds no target.  The collision recovery alone sets the
\* cooldown to its full value, the periodic check alone zeroes the timer.
HelperTick(dt, p, b, off) ==
  /\ recovery.agent = "helper"
  /\ AxolStep(dt, p, b, off, off)
  /\ \E ran \in {axolLog'.mode \notin {"dead", "idle"}} :
       recovery' = Observe(recovery, dt,
                           ran /\ axol'.blockedCooldown = AxolBlockedCooldownMs,
                           ran /\ axol'.stuckTimer = 0)
  /\ UNCHANGED << treats, world, enemyVars, probe, game, level >>

RecoveryInit ==
  /\ Created
  /\ waypoints # << >>
  /\ probe = NoProbe
  /\ game = NoGame
  /\ level = NoLevel
  /\ \/ NotSpawned /\ recovery = Watching("pursuer")
     \/ /\ axol = SpawnAxol(100, 50, Corridor.obstacles)
        /\ treats = Corridor.treats
        /\ world = Corridor.bounds
        /\ axolLog = [op |-> "spawn"]
        /\ recovery = Watching("helper")

RecoveryNext ==
  \/ \E dt \in FineDeltas, tx \in FineTargets, rnd \in RandomOffsets :
       PursuerTick(dt, tx, rnd)
  \/ \E dt \in FineDeltas, b \in Blockings, off \in AngleOffsets :
       \E p \in AxolPlaces \cup (IF axol.spawned THEN {axol.pos} ELSE {}) :
         HelperTick(dt, p, b, off)

RecoverySpec == RecoveryInit /\ [][RecoveryNext]_vars

(***************************************************************************)
(* One level: the objects GameScene.create builds and the callbacks that   *)
(* GameScene wires between them                                            *)
(***************************************************************************)
\* cfg.totalTreats, which is also the number of cfg.treatPositions
TotalTreats == 2

POOP_DURATION_MS == 10000

\* enemy, enemy2 (level 3 and 4) and enemy3 (level 4)
EnemyCount(levelNum) ==
  IF levelNum = 3 THEN 2 ELSE IF levelNum = 4 THEN 3 ELSE 1

\* where the physics step has left the pursuers, the player and the helper
\* when update() runs
Posts == << Pt(400, 300), Pt(200, 250), Pt(1000, 700) >>
PlayerSpot == Pt(60, 60)
PinkSpot == Pt(649, 300)
AxolSpots == { Pt(550, 500), PinkSpot, Pt(700, 1000) }

\* the frame time of the level's update()
LevelDeltas == { 5000 }

\* the poops dropped in one level that are followed
PoopCap == 2

\* a pursuer as the scene sees it: its state, its stun timer and the target
\* position of its last update()
Pursuer == [state |-> "PATROL", stunTimer |-> 0, target |-> NoTarget]

\* GameScene.create.  The observers: ticked holds who the last update()
\* ticked, call the outcome method the last callback called, effects counts
\* the outcome methods that went past their guard; each poop counts its
\* destroy() calls
Built(levelNum) ==
  [treats |-> 1 .. TotalTreats, pink |-> TRUE, treatCount |-> 0,
   axol |-> "none", axolAt |-> NoTarget,
   enemies |-> [k \in 1 .. EnemyCount(levelNum) |-> Pursuer],
   poops |-> << >>, ticked |-> {}, call |-> "none", effects |-> 0]

\* the poop of dropPoop, with its pending delayedCall and the time left to it;
\* by is an observer: what destroyed it
Poop ==
  [active |-> TRUE, pending |-> TRUE, left |-> POOP_DURATION_MS,
   destroyed |-> 0, by |-> "none"]

\* the scene's clock advances by dt: the time left to a pending delayedCall
Aged(q, dt) == IF q.pending THEN [q EXCEPT !.left = @ - dt] ELSE q

\* the delayedCall of poop q is due
Due(q) == q.pending /\ q.left <= 0

\* poop.destroy(), called by who
Destroy(q, who) ==
  [q EXCEPT !.active = FALSE, !.destroyed = @ + 1, !.by = who]

\* the delayedCall of dropPoop
PoopTimeout_Unguarded(q) == [Destroy(q, "expiry") EXCEPT !.pending = FALSE]
PoopTimeout(q) ==
  IF q.active THEN [Destroy(q, "expiry") EXCEPT !.pending = FALSE]
  ELSE [q EXCEPT !.pending = FALSE]

\* Enemy.update as far as the scene's callbacks can tell: a STUNNED pursuer
\* counts its timer down and returns to PATROL; x, y is the target passed
EnemyTick(e, dt, t) ==
  IF e.state = "STUNNED"
  THEN [e EXCEPT !.stunTimer = @ - dt,
                 !.state = IF e.stunTimer - dt <= 0 THEN "PATROL" ELSE @,
                 !.target = t]
  ELSE [e EXCEPT !.target = t]

\* getTarget of GameScene.update for the pursuer at (ex, ey)
\* GetTarget with a helper at VISION_RANGE exactly counted as near
GetTarget_Inclusive(l, playerAt, ex, ey) ==
  IF l.axol = "alive"
     /\ DistSq(l.axolAt.x - ex, l.axolAt.y - ey) <= VISION_RANGE * VISION_RANGE
  THEN l.axolAt
  ELSE playerAt
GetTarget(l, playerAt, ex, ey) ==
  IF l.axol = "alive"
     /\ DistSq(l.axolAt.x - ex, l.axolAt.y - ey) < VISION_RANGE * VISION_RANGE
  THEN l.axolAt
  ELSE playerAt

\* this.axol?.poof(); this.axol = null: the sprite is destroyed
PoofAxol(l) ==
  IF l.axol = "alive" THEN [l EXCEPT !.axol = "gone", !.axolAt = NoTarget]
  ELSE l

\* the part of triggerWin / triggerLose that acts on the level's objects
Outcome(g, l, name) ==
  IF g.isGameOver THEN [l EXCEPT !.call = name]
  ELSE [PoofAxol(l) EXCEPT !.call = name, !.effects = @ + 1]

\* the step of one callback of the level
LevelDone(g, l, op) ==
  /\ game' = [g EXCEPT !.op = op]
  /\ level' = l
  /\ UNCHANGED << enemyVars, probe, axolVars, recovery >>

\* one frame of dt ms: the scene's clock advances (the delayedCalls that are
\* due fire before the next frame), then GameScene.update(time, dt) runs:
\* nothing when the level is over; else the player (who may drop a poop),
\* each pursuer with its own target, the helper
LevelUpdate(dt, space, spot) ==
  /\ InGame
  /\ space => game.dropped < PoopCap
  /\ \A j \in DOMAIN level.poops : ~Due(level.poops[j])
  /\ \E aged \in {[j \in DOMAIN level.poops |-> Aged(level.poops[j], dt)]} :
     IF game.isGameOver
     THEN LevelDone(game,
                    [level EXCEPT !.poops = aged, !.ticked = {},
                                  !.call = "none"],
                    "update")
     ELSE \E g \in {PlayerUpdate(game, space)} :
          \E at \in {IF level.axol = "alive" THEN spot ELSE level.axolAt} :
          \E l \in {[level EXCEPT !.axolAt = at]} :
            LevelDone(g,
              [l EXCEPT
                 !.poops = IF g.dropped > game.dropped
                           THEN Append(aged, Poop) ELSE aged,
                 !.enemies = [k \in DOMAIN @ |->
                                EnemyTick(@[k], dt,
                                          GetTarget(l, PlayerSpot,
                                                    Posts[k].x, Posts[k].y))],
                 !.ticked = { "player", "enemies" }
                            \cup (IF l.axol = "alive" THEN { "axol" } ELSE {}),
                 !.call = "none"],
              "update")

\* the overlap of the player with the pink treat
PinkTreatOverlap ==
  /\ InGame
  /\ level.pink
  /\ LevelDone(game,
       IF level.axol = "alive" THEN [level EXCEPT !.call = "none"]
       ELSE [level EXCEPT !.pink = FALSE, !.axol = "alive",
                          !.axolAt = PinkSpot, !.call = "none"],
       "pink")

\* a treat is destroyed and counted; triggerWin when the count is reached
CollectTreat_WinsEarly(g, l, i) ==
  LET n == l.treatCount + 1
      c == [l EXCEPT !.treats = @ \ { i }, !.treatCount = n, !.call = "none"]
  IN  IF n >= TotalTreats - 1
      THEN << TriggerWin(g), Outcome(g, c, "triggerWin") >>
      ELSE << g, c >>
CollectTreat(g, l, i) ==
  LET n == l.treatCount + 1
      c == [l EXCEPT !.treats = @ \ { i }, !.treatCount = n, !.call = "none"]
  IN  IF n >= TotalTreats
      THEN << TriggerWin(g), Outcome(g, c, "triggerWin") >>
      ELSE << g, c >>

\* the overlap of the player with blue treat i
PlayerTreatOverlap(i) ==
  /\ InGame
  /\ i \in level.treats
  /\ \E c \in {CollectTreat(game, level, i)} : LevelDone(c[1], c[2], "treat")

\* the helper's overlap callback with blue treat i
AxolTreat_NoAliveCheck(g, l, i) ==
  IF g.isGameOver THEN << g, [l EXCEPT !.call = "none"] >>
  ELSE CollectTreat(g, l, i)
AxolTreat(g, l, i) ==
  IF g.isGameOver \/ l.axol # "alive"
  THEN << g, [l EXCEPT !.call = "none"] >>
  ELSE CollectTreat(g, l, i)

\* the overlap of the helper's sprite with blue treat i; the colliders are
\* there from the moment the helper is spawned
AxolTreatOverlap(i) ==
  /\ InGame
  /\ level.axol # "none"
  /\ i \in level.treats
  /\ \E c \in {AxolTreat(game, level, i)} : LevelDone(c[1], c[2], "axolTreat")

\* catchAxol, the overlap of pursuer k with the helper's sprite
CatchAxol(k) ==
  /\ InGame
  /\ level.axol # "none"
  /\ k \in DOMAIN level.enemies
  /\ LevelDone(game, [PoofAxol(level) EXCEPT !.call = "none"], "catch")

\* the overlap of pursuer k with poop j: the poop is destroyed, the pursuer
\* stunned.  A destroyed poop has no body and overlaps nothing
EnemyPoopOverlap(k, j) ==
  /\ InGame
  /\ k \in DOMAIN level.enemies
  /\ j \in DOMAIN level.poops
  /\ level.poops[j].active
  /\ LevelDone([game EXCEPT !.poops = @ - 1],
               [level EXCEPT !.poops[j] = Destroy(@, "pursuer"),
                             !.enemies[k] = Stun(@),
                             !.call = "none"],
               "poop")

\* the delayedCall of dropPoop fires, POOP_DURATION_MS after the drop
PoopTimer(j) ==
  /\ InGame
  /\ j \in DOMAIN level.poops
  /\ Due(level.poops[j])
  /\ LevelDone([game EXCEPT !.poops = IF level.poops[j].active
                                      THEN @ - 1 ELSE @],
               [level EXCEPT !.poops[j] = PoopTimeout(@), !.call = "none"],
               "expire")

\* the overlap of the player with pursuer k
PlayerCaught(k) ==
  /\ InGame
  /\ k \in DOMAIN level.enemies
  /\ LevelDone(TriggerLose(game), Outcome(game, level, "triggerLose"), "lose")

\* the restart button of the lose overlay: the scene is shut down and
\* created again
LevelRestart ==
  /\ InGame
  /\ game.overlay = "lose"
  /\ LevelDone(StartGame(game, game.levelData), Built(game.levelData),
               "restart")

\* the delayedCall of triggerWin fires and the scene is left
LevelLeft ==
  /\ InGame
  /\ game.timer # "none"
  /\ LevelDone(WinTimeout(game), NoLevel, "timer")

\* a level with one pursuer and the last level, with three
StartLevels == { 1, LevelCount }

LevelInit ==
  /\ Created
  /\ waypoints # << >>
  /\ probe = NoProbe
  /\ NotSpawned
  /\ recovery = NoRecovery
  /\ \E n \in StartLevels :
       /\ game = StartGame(Booted(TRUE, TRUE), n)
       /\ level = Built(n)

LevelNext ==
  \/ \E dt \in LevelDeltas, space \in BOOLEAN, spot \in AxolSpots :
       LevelUpdate(dt, space, spot)
  \/ PinkTreatOverlap
  \/ \E i \in 1 .. TotalTreats : PlayerTreatOverlap(i)
  \/ \E i \in 1 .. TotalTreats : AxolTreatOverlap(i)
  \/ \E k \in 1 .. EnemyCount(LevelCount) : CatchAxol(k)
  \/ \E k \in 1 .. EnemyCount(LevelCount), j \in 1 .. PoopCap : EnemyPoopOverlap(k, j)
  \/ \E j \in 1 .. PoopCap : PoopTimer(j)
  \/ \E k \in 1 .. EnemyCount(LevelCount) : PlayerCaught(k)
  \/ LevelRestart
  \/ LevelLeft

LevelSpec == LevelInit /\ [][LevelNext]_vars


(***************************************************************************)
(* C1  The pursuer state machine                                           *)
(***************************************************************************)
\* the changes of state an update() may make
UpdateArrows ==
  { << "STUNNED", "PATROL" >>, << "PATROL", "CHASE" >>, << "SEARCH", "CHASE" >>,
    << "CHASE", "SEARCH" >>, << "SEARCH", "PATROL" >> }

Arrow(a, b) == a = b \/ << a, b >> \in UpdateArrows

\* C1: at every observation point (after construction, after each update(),
\* after each stun()) the pursuer is in exactly one of PATROL, CHASE, SEARCH,
\* STUNNED; it starts in PATROL; only stun() leads to STUNNED, and every
\* change of state inside an update() is one of STUNNED -> PATROL,
\* PATROL -> CHASE, SEARCH -> CHASE, CHASE -> SEARCH, SEARCH -> PATROL; an
\* update() with 0 < delta < 3000 makes at most one such change, so it takes
\* the pursuer neither from CHASE to PATROL nor from PATROL to SEARCH.
C1_StateMachine ==
  /\ state \in States
  /\ lastOp = "create" => state = "PATROL"
  /\ lastOp = "stun" => state = "STUNNED"
  /\ lastOp = "update" =>
       /\ Arrow(startState, midState)
       /\ Arrow(midState, state)
       /\ (0 < delta /\ delta < LOS_LOST_TIMEOUT_MS) => Arrow(startState, state)

\* an update() with delta < 3000 has taken the pursuer from CHASE to SEARCH
C1_Witness ==
  /\ lastOp = "update"
  /\ delta < LOS_LOST_TIMEOUT_MS
  /\ startState = "CHASE"
  /\ state = "SEARCH"

(***************************************************************************)
(* C2  A sighting leads to CHASE within the same update()                  *)
(***************************************************************************)
\* C2: every update() that starts in PATROL, SEARCH or CHASE and in which the
\* target passes the vision test ends in CHASE, with Last-Seen equal to the
\* target position passed to that update() and the loss timer at 0.
C2_SightingChases ==
  (lastOp = "update" /\ startState # "STUNNED" /\ sighted # NoTarget) =>
     /\ state = "CHASE"
     /\ lastSeenPos = sighted
     /\ losTimer = 0

\* a pursuer already in CHASE, with a running loss timer behind it, has seen
\* the target at another place than the one it had recorded
C2_Witness ==
  /\ lastOp = "update"
  /\ startState = "CHASE"
  /\ sighted = Pt(30, 0)
  /\ state = "CHASE"
  /\ lastSeenPos = Pt(30, 0)
  /\ losTimer = 0

(***************************************************************************)
(* C3  CHASE -> SEARCH after 3000 ms of continuous loss of sight           *)
(***************************************************************************)
NearLastSeen ==
  DistSq(lastSeenPos.x - pos.x, lastSeenPos.y - pos.y)
    <= WAYPOINT_ARRIVE_DIST * WAYPOINT_ARRIVE_DIST

\* C3 as stated: a pursuer in CHASE is in SEARCH at the end of the first
\* update() at which the deltas of consecutive non-perceiving ticks sum to at
\* least 3000 ms, and stays in CHASE before that.
C3_Original ==
  (lastOp = "update" /\ startState = "CHASE" /\ canSee = "no") =>
     IF unseenMs >= LOS_LOST_TIMEOUT_MS THEN state = "SEARCH"
                                        ELSE state = "CHASE"

\* C3 as amended: a pursuer in CHASE enters SEARCH in the first update() at
\* which the deltas of consecutive non-perceiving ticks sum to at least
\* 3000 ms and never earlier (a perceiving tick restarts the sum); it is in
\* SEARCH at the end of that update() unless that update()'s delta is at least
\* SEARCH_DURATION_MS and the pursuer is within 20 px of Last-Seen, in which
\* case the same update() runs the search countdown out and ends in PATROL.
C3_LossTimeout ==
  (lastOp = "update" /\ startState = "CHASE" /\ canSee = "no") =>
     IF unseenMs >= LOS_LOST_TIMEOUT_MS
     THEN /\ midState = "SEARCH"
          /\ IF delta >= SEARCH_DURATION_MS /\ NearLastSeen
             THEN state = "PATROL" ELSE state = "SEARCH"
     ELSE /\ midState = "CHASE"
          /\ state = "CHASE"

\* three non-perceiving ticks of 1000 ms have added up to the timeout
C3_Witness ==
  /\ lastOp = "update"
  /\ startState = "CHASE"
  /\ canSee = "no"
  /\ delta < LOS_LOST_TIMEOUT_MS
  /\ unseenMs = LOS_LOST_TIMEOUT_MS
  /\ state = "SEARCH"

(***************************************************************************)
(* C4  SEARCH -> PATROL only at Last-Seen with the countdown run down       *)
(***************************************************************************)
\* C4: SEARCH -> PATROL happens only in an update() in which the pursuer is
\* within 20 px of Last-Seen and the countdown has reached 0 or below; the
\* countdown is decremented only on ticks where the pursuer is within that
\* radius.
C4_SearchToPatrol ==
  [][ LET near == DistSq(lastSeenPos'.x - pos'.x, lastSeenPos'.y - pos'.y)
                    <= WAYPOINT_ARRIVE_DIST * WAYPOINT_ARRIVE_DIST
      IN  /\ (state = "SEARCH" /\ state' = "PATROL") =>
                (lastOp' = "update" /\ near /\ searchTimer' <= 0)
          /\ (lastOp' = "update" /\ midState' = "SEARCH" /\ state' = "PATROL") =>
                (near /\ searchTimer' <= 0)
          /\ (searchTimer' < searchTimer) =>
                (lastOp' = "update" /\ midState' = "SEARCH" /\ near)
    ]_vars

\* the countdown ran over several ticks at Last-Seen and the pursuer is back
\* in PATROL
C4_Witness ==
  /\ lastOp = "update"
  /\ startState = "SEARCH"
  /\ state = "PATROL"
  /\ delta < SEARCH_DURATION_MS
  /\ searchTimer = 0
  /\ NearLastSeen

(***************************************************************************)
(* C5  The patrol cursor across a chase/search episode                     *)
(***************************************************************************)
\* C5: in every run PATROL -> CHASE -> ... -> SEARCH -> PATROL without a
\* stun() in between, the waypoint index at the end of the update() that
\* returns the pursuer to PATROL equals the index it had at the end of the
\* last update() before it left PATROL.
C5_CursorKept ==
  (lastOp = "update" /\ midState = "SEARCH" /\ state = "PATROL"
     /\ patrolMark # -1) =>
     waypointIndex = patrolMark

(***************************************************************************)
(* C6  stun() overrides everything                                         *)
(***************************************************************************)
\* C6: stun() makes the state STUNNED immediately in any state; an update()
\* that starts in STUNNED tests no vision (Last-Seen and the loss timer stay
\* as they were) and never ends in CHASE or SEARCH; the update() in which the
\* stun timer lapses ends in PATROL, also with the target in plain sight.
C6_StunOverride ==
  /\ [](lastOp = "stun" => state = "STUNNED")
  /\ [](lastOp = "update" /\ startState = "STUNNED" =>
          /\ state \in {"STUNNED", "PATROL"}
          /\ state = "PATROL" <=> stunTimer <= 0)
  /\ [][ (state = "STUNNED" /\ lastOp' = "update") =>
            /\ lastSeenPos' = lastSeenPos
            /\ losTimer' = losTimer
            /\ searchTimer' = searchTimer ]_vars

\* the stun lapsed in a tick in which the target was in the cone with a clear
\* line of sight, and the pursuer is in PATROL
C6_Witness ==
  /\ lastOp = "update"
  /\ startState = "STUNNED"
  /\ sighted # NoTarget
  /\ state = "PATROL"

(***************************************************************************)
(* C7  The stun lasts POOP_STUN_DURATION_MS of accumulated delta            *)
(***************************************************************************)
\* C7: after a stun() with no further stun(), the pursuer is STUNNED at the
\* end of every update() while the deltas accumulated since the stun are
\* below 2000 ms and in PATROL at the end of the first update() at which they
\* reach 2000 ms; no update() starts in STUNNED with 2000 ms already
\* accumulated, so with positive deltas the stun ends after finitely many
\* updates.
C7_StunLapses ==
  (lastOp = "update" /\ startState = "STUNNED") =>
     /\ delta > 0
     /\ sinceStunMs - delta < POOP_STUN_DURATION_MS
     /\ IF sinceStunMs < POOP_STUN_DURATION_MS THEN state = "STUNNED"
                                               ELSE state = "PATROL"

\* two ticks of 1000 ms have added up to exactly the stun duration
C7_Witness ==
  /\ lastOp = "update"
  /\ startState = "STUNNED"
  /\ delta < POOP_STUN_DURATION_MS
  /\ sinceStunMs = POOP_STUN_DURATION_MS
  /\ state = "PATROL"

(***************************************************************************)
(* C8  SEARCH ends                                                         *)
(***************************************************************************)
\* C8: from any state in which the pursuer is in SEARCH, if the target is not
\* perceived again and stun() is not called, the pursuer eventually reaches
\* PATROL under continued ticking with positive delta.
C8_SearchEnds ==
  (state = "SEARCH") ~> (state = "PATROL" \/ canSee = "yes" \/ lastOp = "stun")

(***************************************************************************)
(* C9  Arrival advances the patrol cursor by one                           *)
(***************************************************************************)
\* C9: in PATROL with n >= 1 waypoints and the target not perceived, an
\* update() that starts with the pursuer closer than 20 px to the current
\* waypoint i ends with the waypoint index equal to (i+1) mod n.
C9_OneStepForward ==
  [][ (/\ state = "PATROL"
       /\ lastOp' = "update"
       /\ canSee' = "no"
       /\ Len(waypoints) >= 1
       /\ DistSq(waypoints[waypointIndex + 1].x - pos'.x,
                 waypoints[waypointIndex + 1].y - pos'.y)
            < WAYPOINT_ARRIVE_DIST * WAYPOINT_ARRIVE_DIST)
      => waypointIndex' = (waypointIndex + 1) % Len(waypoints) ]_vars

(***************************************************************************)
(* C10  Patrol without waypoints                                           *)
(***************************************************************************)
\* lastSeenPos starts at the origin and is written only when the target is
\* perceived; no target of TargetXs is at the origin
NeverPerceived == lastSeenPos = Pt(0, 0)

\* C10: with an empty waypoint list, a pursuer whose target is never
\* perceived holds position: its commanded velocity is zero at the end of
\* every update(), in PATROL and in STUNNED.
C10_HoldsPosition ==
  (Len(waypoints) = 0 /\ NeverPerceived /\ lastOp = "update") =>
     velocity = Pt(0, 0)

(***************************************************************************)
(* C11  The boundaries of the vision cone                                  *)
(***************************************************************************)
\* squared distance and bearing difference of the probed target
ProbeDistSq ==
  DistSq(probe.target.x - probe.pos.x, probe.target.y - probe.pos.y)

ProbeAngleDiff ==
  Abs(NormDeg(Atan2Deg(probe.target.y - probe.pos.y,
                       probe.target.x - probe.pos.x) - probe.facingAngle))

\* C11: with no obstacles a target is rejected only when its squared distance
\* is strictly greater than VISION_RANGE^2 or the absolute normalised angle
\* difference is strictly greater than the half-angle; a target at exactly
\* the range and exactly the half-angle is perceived.
C11_InclusiveBoundaries ==
  (probe.fn = "canSeePlayer" /\ probe.done /\ probe.obstacles = << >>) =>
     (probe.result <=>
        ~(ProbeDistSq > VISION_RANGE * VISION_RANGE
            \/ ProbeAngleDiff > VISION_HALF_ANGLE_DEG))

\* a target at exactly the range and exactly the half-angle has been perceived
C11_Witness ==
  /\ probe.fn = "canSeePlayer"
  /\ probe.done
  /\ probe.obstacles = << >>
  /\ ProbeDistSq = VISION_RANGE * VISION_RANGE
  /\ ProbeAngleDiff = VISION_HALF_ANGLE_DEG
  /\ probe.result

(***************************************************************************)
(* C12  Occlusion by one rectangle                                         *)
(***************************************************************************)
\* the point is not in the closed rectangle
OutsideRect(q, r) ==
  q.x < r.x \/ q.x > r.x + r.w \/ q.y < r.y \/ q.y > r.y + r.h

\* the segment a-b meets the open rectangle: no axis of the rectangle and no
\* side of the line through a and b separates them
PassesThrough(a, b, r) ==
  LET corners == { Pt(r.x, r.y), Pt(r.x + r.w, r.y),
                   Pt(r.x, r.y + r.h), Pt(r.x + r.w, r.y + r.h) }
      Side(c) == (b.x - a.x) * (c.y - a.y) - (b.y - a.y) * (c.x - a.x)
  IN  ~ \/ Max(a.x, b.x) <= r.x
        \/ Min(a.x, b.x) >= r.x + r.w
        \/ Max(a.y, b.y) <= r.y
        \/ Min(a.y, b.y) >= r.y + r.h
        \/ \A c \in corners : Side(c) >= 0
        \/ \A c \in corners : Side(c) <= 0

\* the probe has one rectangle, both points outside it and the segment through it
ProbeOccluded ==
  /\ probe.fn = "canSeePlayer"
  /\ probe.done
  /\ Len(probe.obstacles) = 1
  /\ OutsideRect(probe.pos, probe.obstacles[1])
  /\ OutsideRect(probe.target, probe.obstacles[1])
  /\ PassesThrough(probe.pos, probe.target, probe.obstacles[1])

\* C12: with observer and target outside a single rectangle and the segment
\* between them passing through it, the vision test is false whatever the
\* distance and the facing angle.
C12_Occlusion == ProbeOccluded => ~probe.result

\* an occluded target in range and straight ahead of the observer
C12_Witness ==
  /\ ProbeOccluded
  /\ ProbeDistSq <= VISION_RANGE * VISION_RANGE
  /\ ProbeAngleDiff = 0
  /\ probe.pos.x # probe.target.x
  /\ probe.pos.y # probe.target.y
  /\ ~probe.result

(***************************************************************************)
(* C13  The end-to-end vision scenario                                     *)
(***************************************************************************)
ScenarioProbe(f, t) ==
  /\ probe.fn = "canSeePlayer"
  /\ probe.done
  /\ probe.obstacles = << Rect(200, 200, 100, 50) >>
  /\ probe.pos = Pt(100, 200)
  /\ probe.facingAngle = f
  /\ probe.target = t

\* C13: with the obstacle {200, 200, 100, 50}, the pursuer at (100, 200)
\* facing 0 does not perceive a target at (400, 200); facing a target at
\* (100, 400) it perceives it.
C13_Scenario ==
  /\ ScenarioProbe(0, Pt(400, 200)) => ~probe.result
  /\ ScenarioProbe(90, Pt(100, 400)) => probe.result

\* the second half of the scenario has been run
C13_Witness == ScenarioProbe(90, Pt(100, 400)) /\ probe.result

(***************************************************************************)
(* C14  Line of sight of a zero-length segment                             *)
(***************************************************************************)
\* C14: hasLOS(p, p) is true for every point p and every obstacle list,
\* points inside an obstacle or inside its 4 px inflation margin included.
C14_ZeroLengthVisible ==
  (probe.fn = "hasLOS" /\ probe.done /\ probe.from = probe.to) => probe.result

(***************************************************************************)
(* C15  Line of sight does not depend on the order of the obstacles        *)
(***************************************************************************)
Reorderings(s) ==
  { [i \in 1..Len(s) |-> s[f[i]]] :
      f \in { g \in [1..Len(s) -> 1..Len(s)] :
                \A i, j \in 1..Len(s) : g[i] = g[j] => i = j } }

\* obstacle r, inflated by INF, clips the probed segment
Clips(r) ==
  SegmentIntersectsAABB(probe.from.x, probe.from.y, probe.to.x, probe.to.y,
                        r.x - INF, r.y - INF, r.x + r.w + INF, r.y + r.h + INF)

\* C15: hasLOS returns the same value for every permutation of the obstacle
\* list, and it is false exactly when at least one inflated obstacle clips
\* the segment.
C15_OrderIndependent ==
  (probe.fn = "hasLOS" /\ probe.done) =>
     /\ \A perm \in Reorderings(probe.obstacles) :
           HasLOS(perm, probe.from.x, probe.from.y, probe.to.x, probe.to.y)
             = probe.result
     /\ probe.result <=>
          ~\E i \in 1..Len(probe.obstacles) : Clips(probe.obstacles[i])

\* a segment clipped by the last obstacle of the list and by no earlier one
C15_Witness ==
  /\ probe.fn = "hasLOS"
  /\ probe.done
  /\ Len(probe.obstacles) >= 2
  /\ probe.from # probe.to
  /\ ~Clips(probe.obstacles[1])
  /\ Clips(probe.obstacles[Len(probe.obstacles)])
  /\ ~probe.result

(***************************************************************************)
(* C16  The helper never steers by a stale target                          *)
(***************************************************************************)
\* the last operation was an update() of a living helper
Updated == axolLog.op = "update" /\ axolLog.mode # "dead"

ActiveTreats == { i \in 1..Len(treats) : treats[i].active }

\* squared distance of treat i from where the helper stood when it steered
FromSq(i) == DistSq(treats[i].x - axolLog.from.x, treats[i].y - axolLog.from.y)

\* C16: where update() decides the steering the held target is absent or an
\* active collectible; a held target that became inactive since the previous
\* tick is replaced in that very update() by the nearest active collectible
\* (by squared distance), or, when none is active, no target is held and the
\* tick ends with zero velocity.
C16_NoStaleTarget ==
  Updated =>
    /\ axolLog.held = 0 \/ axolLog.held \in ActiveTreats
    /\ axol.currentTarget = axolLog.held
    /\ axolLog.stale =>
         IF ActiveTreats # {}
         THEN /\ axolLog.held \in ActiveTreats
              /\ \A j \in ActiveTreats : FromSq(axolLog.held) <= FromSq(j)
         ELSE /\ axolLog.held = 0
              /\ axol.velocity = Halted

\* an update() that found its target inactive and took another one
C16_Witness ==
  /\ Updated
  /\ axolLog.stale
  /\ axolLog.held \in ActiveTreats
  /\ axol.velocity # Halted

(***************************************************************************)
(* C17  No reachable target                                                *)
(***************************************************************************)
\* the placement of the body centred at q overlaps an obstacle or leaves the world
UnsafePlace(q) ==
  \/ ~InWorld(q, world)
  \/ \E i \in 1..Len(axol.obstacles) :
        Overlaps(q.x - AxolBodyWidth \div 2, q.y - AxolBodyHeight \div 2,
                 AxolBodyWidth, AxolBodyHeight, axol.obstacles[i])

\* the two side-step candidates, D px to either side of the line to the target
SideSteps ==
  LET dx == treats[axolLog.held].x - axolLog.from.x
      dy == treats[axolLog.held].y - axolLog.from.y
  IN  { Pt(axolLog.from.x + s * Scaled(-dy, dx, D),
           axolLog.from.y + s * Scaled(dx, dy, D)) : s \in {1, -1} }

\* the last update() found every active treat out of sight, had to compute a
\* detour, and neither candidate was a safe placement
DetourFailed ==
  /\ Updated
  /\ axolLog.mode = "detour"
  /\ axolLog.due
  /\ \A q \in SideSteps : UnsafePlace(q)

\* C17: when every active collectible is line-of-sight blocked and neither
\* perpendicular detour candidate is a safe placement, the commanded velocity
\* is zero at the end of that update().
C17_HaltsWhenDetourFails == DetourFailed => axol.velocity = Halted

(***************************************************************************)
(* C18  The detour point is stable                                         *)
(***************************************************************************)
\* the recompute conditions at the update() of this step: no detour point,
\* within DetourArriveDist of it, or more than DetourTimeoutMs accumulated
RecomputeNow ==
  \/ ~axol.detourPoint.set
  \/ DistSq(axolLog'.from.x - axol.detourPoint.x,
            axolLog'.from.y - axol.detourPoint.y)
       < DetourArriveDist * DetourArriveDist
  \/ axol.detourTimer + axolLog'.delta > DetourTimeoutMs

\* C18: in an update() that runs in detour mode with the target already held,
\* the detour point is the one of the previous update() unless a recompute
\* condition holds at that update(); the detour timer is 0 after a
\* recomputation and has grown by delta otherwise.
C18_StableDetour ==
  [][ ( /\ axolLog'.op = "update"
        /\ axolLog'.mode = "detour"
        /\ axol.currentTarget # 0
        /\ axolLog'.held = axol.currentTarget
        /\ ~axolLog'.stale )
      => IF RecomputeNow
         THEN axol'.detourTimer = 0
         ELSE /\ axol'.detourPoint = axol.detourPoint
              /\ axol'.detourTimer = axol.detourTimer + axolLog'.delta ]_vars

\* an update() in detour mode that kept the detour point it had
C18_Witness ==
  /\ Updated
  /\ axolLog.mode = "detour"
  /\ ~axolLog.due
  /\ axol.detourPoint.set
  /\ axol.detourTimer > 0

(***************************************************************************)
(* C19  poof() is a one-shot terminal transition                           *)
(***************************************************************************)
\* C19: the first poof() sets alive to false and tears the helper down; a
\* later poof() changes nothing (no second teardown, no second smoke
\* effect); alive never returns to true; update() on a poofed helper changes
\* no state.
C19_PoofOnce ==
  [][ /\ (axolLog'.op = "poof" /\ axol.alive) =>
            /\ ~axol'.alive
            /\ ~axol'.bodyEnabled
            /\ axol'.velocity = Halted
            /\ axol'.destroys = axol.destroys + 1
            /\ axol'.smokes = axol.smokes + 1
      /\ (axolLog'.op \in {"poof", "update"} /\ axol.spawned /\ ~axol.alive) =>
            /\ axol' = axol
            /\ treats' = treats
      /\ (axol.spawned /\ ~axol.alive) => ~axol'.alive ]_vars

\* poof() has been called on a helper that was already poofed
C19_Witness ==
  /\ axolLog.op = "poof"
  /\ axolLog.again
  /\ ~axol.alive
  /\ axol.destroys = 1
  /\ axol.smokes = 2

(***************************************************************************)
(* C20  Embedding recovery                                                 *)
(***************************************************************************)
\* C20: in every update() that starts with the body overlapping an obstacle,
\* after the correction step the body overlaps no obstacle and lies inside
\* the world bounds.
C20_RecoversFromEmbedding ==
  (Updated /\ axolLog.embedded) => ~UnsafePlace(axolLog.from)

(***************************************************************************)
(* C21  Poop charges                                                       *)
(***************************************************************************)
\* the handlers that start a level instance
LevelStarts == {"launch", "next", "restart"}

\* C21: the player has POOP_CHARGES_START = 3 charges per level instance.
\* Every start of a level gives 3; a frame changes the count only by a drop,
\* which needs a count above 0, takes exactly one charge and adds one poop;
\* nothing else changes the count, so it never grows within a level, stays
\* within 0..3, and at most 3 poops are dropped per level instance.
C21_PoopCharges ==
  /\ [](InGame => /\ game.poopCharges \in 0..POOP_CHARGES_START
                  /\ game.dropped = POOP_CHARGES_START - game.poopCharges
                  /\ game.dropped <= 3)
  /\ [][ /\ game'.op \in LevelStarts =>
              game'.poopCharges = 3 /\ game'.dropped = 0
         /\ game'.op = "update" =>
              \/ game'.poopCharges = game.poopCharges /\
                 game'.dropped = game.dropped
              \/ /\ game.poopCharges > 0
                 /\ game'.poopCharges = game.poopCharges - 1
                 /\ game'.dropped = game.dropped + 1
                 /\ game'.poops = game.poops + 1
         /\ game'.op \notin LevelStarts \cup {"update"} =>
              game'.poopCharges = game.poopCharges ]_vars

\* the third drop of a level has used up the last charge
C21_Witness ==
  InGame /\ game.op = "update" /\ game.poopCharges = 0 /\ game.dropped = 3

(***************************************************************************)
(* C22  Level order                                                        *)
(***************************************************************************)
InTransition == game.scene = "TransitionScene"

\* C22: levels are completed in order.  Winning level n < LEVELS.length
\* leads to the transition scene with completedLevel = n, and the transition
\* scene leads to level n + 1; the transition scene is entered from nowhere
\* else and left for no other level.  Winning the last level shows YOU WIN!
\* and schedules no transition, so the transition scene never runs with a
\* next level that does not exist.
C22_LevelOrder ==
  /\ [](InTransition => game.completedLevel \in 1..(LevelCount - 1))
  /\ [](InGame => game.levelNum \in 1..LevelCount)
  /\ [][ /\ (InTransition' /\ ~InTransition) =>
              /\ InGame /\ game.isGameOver /\ game.overlay = "none"
              /\ game.levelNum < LevelCount
              /\ game'.completedLevel = game.levelNum
         /\ (InTransition /\ ~InTransition') =>
              InGame' /\ game'.levelNum = game.completedLevel + 1
         /\ (InGame /\ ~game.isGameOver /\ game'.op = "win") =>
              IF game.levelNum < LevelCount
              THEN game'.timer = "transition" /\ game'.overlay = "none"
              ELSE game'.timer = "credits" /\ game'.overlay = "win" ]_vars
  /\ \A n \in 1..(LevelCount - 1) :
       /\ (InGame /\ game.levelNum = n /\ game.timer = "transition")
            ~> (InTransition /\ game.completedLevel = n)
       /\ (InTransition /\ game.completedLevel = n)
            ~> (InGame /\ game.levelNum = n + 1)

\* the last level has been reached through the three transitions and won
C22_Witness ==
  InGame /\ game.levelNum = LevelCount /\ game.overlay = "win"

(***************************************************************************)
(* C23  The mute flag                                                      *)
(***************************************************************************)
\* mute is on: the flag stored in the scene's data manager is true
MuteOn == game.muted = Some(TRUE)

\* C23: the mute state persists across restarts and level transitions, and
\* the stored flag equals the audio manager's muted state after each toggle.
\* No start of a level changes the stored flag; a toggle flips the manager's
\* state and stores the new one; and whenever the game scene runs with an
\* audio manager, the manager and the game-wide sound manager are muted
\* exactly when the stored flag is on.
C23_MutePersists ==
  /\ []((InGame /\ game.audioManager # Absent) =>
          /\ game.audioManager = Some(MuteOn)
          /\ game.soundMute = MuteOn)
  /\ [][ /\ game'.op \in LevelStarts => game'.muted = game.muted
         /\ (game'.op = "mute" /\ game.audioManager # Absent) =>
              /\ game'.audioManager = Some(~game.audioManager[1])
              /\ game'.muted = game'.audioManager ]_vars

\* a level reached through the transition scene starts muted
C23_Witness ==
  /\ InGame /\ game.op = "next" /\ MuteOn
  /\ game.audioManager = Some(TRUE) /\ game.soundMute

(***************************************************************************)
(* C24  An update() that starts in STUNNED                                 *)
(***************************************************************************)
\* the patrol waypoint a stunned pursuer shambles toward, seen from where
\* the frame has put it: its own position when there is no waypoint
ShambleTarget ==
  IF waypointIndex + 1 \in 1..Len(waypoints)
  THEN waypoints[waypointIndex + 1] ELSE pos'

\* C24: an update() that starts in STUNNED leaves the waypoint index,
\* Last-Seen, the loss timer, the search countdown, the stuck timer (with
\* its position snapshot) and the blocked cooldown as they were and runs no
\* stuck or collision recovery; it only takes delta off the stun timer,
\* steers toward the current patrol waypoint at ENEMY_STUNNED_SPEED and sets
\* the state to PATROL when the timer has run out.
C24_StunnedUpdate ==
  [][ (lastOp' = "update" /\ state = "STUNNED") =>
        /\ waypointIndex' = waypointIndex
        /\ lastSeenPos' = lastSeenPos
        /\ losTimer' = losTimer
        /\ searchTimer' = searchTimer
        /\ stuckTimer' = stuckTimer
        /\ lastX' = lastX /\ lastY' = lastY
        /\ blockedCooldown' = blockedCooldown
        /\ stunTimer' = stunTimer - delta'
        /\ state' = IF stunTimer' <= 0 THEN "PATROL" ELSE "STUNNED"
        /\ velocity' = Pt(Sign(ShambleTarget.x - pos'.x) * ENEMY_STUNNED_SPEED,
                          0) ]_vars

\* a stunned update of a pursuer whose collision cooldown was running and
\* whose body the world step had stopped against a wall
C24_Witness ==
  /\ lastOp = "update" /\ startState = "STUNNED"
  /\ blockedCooldown > 0
  /\ blocked.left \/ blocked.right
  /\ velocity.x # 0

(***************************************************************************)
(* C25  Halting at Last-Seen                                               *)
(***************************************************************************)
\* the update that just ended ran updateSearch on a pursuer within
\* WAYPOINT_ARRIVE_DIST of Last-Seen, and its countdown is still running
ArrivedSearching ==
  /\ lastOp = "update" /\ midState = "SEARCH" /\ state = "SEARCH"
  /\ DistSq(lastSeenPos.x - pos.x, lastSeenPos.y - pos.y)
       <= WAYPOINT_ARRIVE_DIST * WAYPOINT_ARRIVE_DIST
  /\ searchTimer > 0

\* C25: a pursuer in SEARCH that has arrived within 20 px of Last-Seen is
\* halted: at the end of every such update(), while the countdown runs, the
\* commanded velocity is zero.
C25_HaltedAtLastSeen ==
  ArrivedSearching => velocity = Pt(0, 0)

(***************************************************************************)
(* C26  A search countdown starts in full                                  *)
(***************************************************************************)
\* the update that just ended entered SEARCH in its loss-timer block
EnteredSearch ==
  lastOp = "update" /\ startState = "CHASE" /\ midState = "SEARCH"

\* C26: a SEARCH countdown is abandoned, not paused.  Every entry into
\* SEARCH starts the countdown at the full SEARCH_DURATION_MS whatever was
\* left of an earlier countdown: after the entering update() the timer
\* stands at 3000, less that update's own delta when the pursuer is already
\* within WAYPOINT_ARRIVE_DIST of Last-Seen and the countdown runs at once.
C26_FullCountdown ==
  EnteredSearch =>
    searchTimer =
      IF DistSq(lastSeenPos.x - pos.x, lastSeenPos.y - pos.y)
           <= WAYPOINT_ARRIVE_DIST * WAYPOINT_ARRIVE_DIST
      THEN SEARCH_DURATION_MS - delta
      ELSE SEARCH_DURATION_MS

\* SEARCH is entered with an earlier countdown only partly run down
C26_Witness ==
  /\ EnteredSearch
  /\ searchBefore > 0 /\ searchBefore < SEARCH_DURATION_MS
  /\ searchTimer = SEARCH_DURATION_MS

(***************************************************************************)
(* C27  The held target                                                    *)
(***************************************************************************)
\* C27: update() changes the held target only when none is held or the held
\* one is no longer active; steering at an alternative treat with a clear
\* line of sight, or at a detour point, leaves the held target as it is,
\* even when another active treat is nearer.
C27_HeldTargetKept ==
  [][ (axolLog'.op = "update" /\ axolLog'.mode # "dead") =>
        /\ (axol.currentTarget # 0 /\ treats[axol.currentTarget].active) =>
              axol'.currentTarget = axol.currentTarget
        /\ axol'.currentTarget = axolLog'.held ]_vars

\* the helper steers at an alternative treat that is nearer than the one it
\* holds, and still holds it
C27_Witness ==
  /\ Updated /\ axolLog.mode = "alternative"
  /\ axol.currentTarget = axolLog.held
  /\ \E i \in ActiveTreats : FromSq(i) < FromSq(axolLog.held)

(***************************************************************************)
(* C28  When a detour point exists                                         *)
(***************************************************************************)
\* treat i is in line of sight from where the last update() found the helper
InSight(i) ==
  HasLOS(axol.obstacles, axolLog.from.x, axolLog.from.y,
         treats[i].x, treats[i].y)

\* C28: a detour point exists at the end of an update() only if, on that
\* tick, neither the held target nor any other active treat was in line of
\* sight; on a tick that steers directly or at an alternative treat the
\* detour point is cleared and the detour timer is 0.
C28_DetourOnlyWhenBlocked ==
  Updated =>
    /\ axol.detourPoint.set =>
         /\ axolLog.mode = "detour"
         /\ \A i \in ActiveTreats : ~InSight(i)
    /\ axolLog.mode \in {"direct", "alternative", "idle"} =>
         ~axol.detourPoint.set /\ axol.detourTimer = 0

\* a detour point is in use with two active treats, both out of sight
C28_Witness ==
  /\ Updated /\ axol.detourPoint.set
  /\ Cardinality(ActiveTreats) = 2

(***************************************************************************)
(* C29  The detour side is sticky                                          *)
(***************************************************************************)
\* the side-step candidate dist px out on side s of the line from the helper
\* to the target it holds in the update() of this step
SideStepAt(s, dist) ==
  LET dx == treats[axolLog'.held].x - axolLog'.from.x
      dy == treats[axolLog'.held].y - axolLog'.from.y
  IN  Detour(axolLog'.from.x + s * Scaled(-dy, dx, dist),
             axolLog'.from.y + s * Scaled(dx, dy, dist))

\* C29: the side of the detour is sticky.  When a detour point is computed,
\* detourDir is kept whenever the candidate on the preferred side is a safe
\* placement, also when the opposite one is safe too; it flips only when
\* the preferred candidate is unsafe and the opposite one is safe; when
\* neither is safe it is left as it was and a point farther out is used.
\* An update() that computes no detour point leaves detourDir alone.
C29_StickySide ==
  [][ (axolLog'.op = "update" /\ axolLog'.mode # "dead") =>
        IF axolLog'.mode = "detour" /\ axolLog'.due
        THEN \E keep \in {SideStepAt(axol.detourDir, D)},
                flip \in {SideStepAt(-axol.detourDir, D)} :
             \E okKeep \in {~UnsafePlace(keep)},
                okFlip \in {~UnsafePlace(flip)} :
               /\ okKeep =>
                    /\ axol'.detourDir = axol.detourDir
                    /\ axol'.detourPoint = keep
               /\ (~okKeep /\ okFlip) =>
                    /\ axol'.detourDir = -axol.detourDir
                    /\ axol'.detourPoint = flip
               /\ (~okKeep /\ ~okFlip) =>
                    /\ axol'.detourDir = axol.detourDir
                    /\ axol'.detourPoint \in
                         { SideStepAt(s, LastResort) : s \in {1, -1} }
        ELSE axol'.detourDir = axol.detourDir ]_vars

\* a detour point was computed on the second side although both sides were
\* safe: the side taken earlier was kept
C29_Witness ==
  /\ Updated /\ axolLog.mode = "detour" /\ axolLog.due
  /\ axol.detourDir = -1
  /\ \A q \in SideSteps : ~UnsafePlace(q)

(***************************************************************************)
(* C30  Recovery is rate limited                                           *)
(***************************************************************************)
\* C30: recovery is rate limited for both agents.  Two collision recoveries
\* of one agent are at least the cooldown apart in accumulated frame time
\* (350 ms for the pursuer, 300 ms for the helper) and two periodic
\* displacement checks at least the check interval (500 ms, 450 ms); so no
\* recovery of one kind fires on two consecutive ticks whose delta is below
\* these values.
C30_RateLimited ==
  /\ recovery.agent = "pursuer" =>
       /\ (recovery.collided /\ recovery.collisionGap # -1) =>
             recovery.collisionGap >= 350
       /\ (recovery.checked /\ recovery.checkGap # -1) =>
             recovery.checkGap >= 500
  /\ recovery.agent = "helper" =>
       /\ (recovery.collided /\ recovery.collisionGap # -1) =>
             recovery.collisionGap >= 300
       /\ (recovery.checked /\ recovery.checkGap # -1) =>
             recovery.checkGap >= 450

\* a second collision recovery of the pursuer on a tick shorter than the
\* cooldown, two such ticks after the first
C30_Witness ==
  /\ recovery.agent = "pursuer"
  /\ recovery.collided /\ recovery.delta = 200
  /\ recovery.collisionGap = 400

(***************************************************************************)
(* C31  Stuck recovery by state                                            *)
(***************************************************************************)
\* the periodic check of the probe found the pursuer stuck and recovered
Recovered == probe.fn = "updateStuck" /\ probe.done /\ probe.moved < StuckMinMove

\* C31: the periodic-check recovery of a pursuer in PATROL with waypoints moves
\* the waypoint index to (i + 1) mod n and leaves the velocity alone; in CHASE
\* or SEARCH (and in PATROL without waypoints) it leaves the index alone and
\* sets a velocity of magnitude chase speed (CHASE) or patrol speed (otherwise)
\* whose direction is within 90 degrees of the facing direction.
C31_RecoveryByState ==
  Recovered =>
    LET r   == probe.result
        n   == Len(probe.waypoints)
        spd == IF probe.state = "CHASE" THEN chaseSpeed ELSE patrolSpeed
    IN  IF probe.state = "PATROL" /\ n > 0
        THEN /\ r.waypointIndex = (probe.waypointIndex + 1) % n
             /\ r.velocity = probe.velocity
        ELSE /\ r.waypointIndex = probe.waypointIndex
             /\ DistSq(r.velocity.x, r.velocity.y) = spd * spd
             /\ r.velocity.x * CosDeg(probe.facingAngle)
                  + r.velocity.y * SinDeg(probe.facingAngle) >= 0

\* a recovery that wraps the index of a three-point route, and a nudge in CHASE
C31_Witness ==
  /\ Recovered
  /\ \/ probe.state = "PATROL" /\ Len(probe.waypoints) = 3
        /\ probe.waypointIndex = 2 /\ probe.result.waypointIndex = 0
     \/ probe.state = "CHASE" /\ probe.rnd # 0
        /\ probe.result.velocity # probe.velocity

(***************************************************************************)
(* C32  Displacement on a wall collision                                   *)
(***************************************************************************)
\* position p moved 3 px away from every blocked side of b
Displaced(p, b) ==
  Pt(p.x + (IF b.left THEN PUSH ELSE 0) - (IF b.right THEN PUSH ELSE 0),
     p.y + (IF b.up THEN PUSH ELSE 0) - (IF b.down THEN PUSH ELSE 0))

\* C32: an update() of the pursuer in which the immediate collision recovery
\* fires (body blocked, a velocity component above 10, cooldown elapsed)
\* leaves the sprite 3 px away, on the side opposite to each blocked side,
\* from where the world step had put it.
C32_PursuerDisplaced ==
  [][ (recovery'.agent = "pursuer" /\ recovery'.collided) =>
        \E e \in {WorldStep(Self, delta')} :
          pos' = Displaced(e.pos, e.blocked) ]_vars

(***************************************************************************)
(* C33  The target of each pursuer                                         *)
(***************************************************************************)
\* the last step was an update() that ticked the level's objects
Ticked == game.scene = "GameScene" /\ game.op = "update" /\ level.ticked # {}

\* the helper is alive and strictly nearer than VISION_RANGE to pursuer k
HelperNear(k) ==
  /\ level.axol = "alive"
  /\ DistSq(level.axolAt.x - Posts[k].x, level.axolAt.y - Posts[k].y)
       < VISION_RANGE * VISION_RANGE

\* C33: the target passed to each pursuer's update() is the helper's position
\* exactly when the helper is alive and strictly nearer than VISION_RANGE to
\* that pursuer, and the player's position otherwise; a helper that is gone
\* stays gone for the rest of the level, so every later update() passes the
\* player's position to every pursuer.
C33_TargetByProximity ==
  /\ [](Ticked =>
          \A k \in DOMAIN level.enemies :
            level.enemies[k].target =
              IF HelperNear(k) THEN level.axolAt ELSE PlayerSpot)
  /\ [][ (game.scene = "GameScene" /\ level.axol = "gone"
          /\ game'.op \notin { "restart", "timer" })
         => level'.axol = "gone" ]_vars

\* the last level, the helper alive next to the first pursuer and away from
\* the second: the first is given the helper, the second the player
C33_Witness ==
  /\ Ticked
  /\ Len(level.enemies) = 3
  /\ HelperNear(1)
  /\ ~HelperNear(2)
  /\ level.enemies[1].target = level.axolAt
  /\ level.enemies[2].target = PlayerSpot

(***************************************************************************)
(* C34  Callbacks on a helper that is gone                                 *)
(***************************************************************************)
\* the helper of the running level has been poofed
HelperGone == game.scene = "GameScene" /\ level.axol = "gone"

\* C34: once the helper has been poofed (caught, or at win / lose), and in
\* whatever order the callbacks come: no update() of the scene ticks the
\* helper, the helper's treat callback removes and counts no treat and
\* triggers nothing, and a catch callback changes nothing.
C34_GoneHelperIsInert ==
  [][ HelperGone =>
        /\ game'.op = "update" => "axol" \notin level'.ticked
        /\ game'.op = "axolTreat" =>
              /\ level'.treats = level.treats
              /\ level'.treatCount = level.treatCount
              /\ level'.call = "none"
              /\ game' = [game EXCEPT !.op = "axolTreat"]
        /\ game'.op = "catch" =>
              /\ level' = [level EXCEPT !.call = "none"]
              /\ game' = [game EXCEPT !.op = "catch"] ]_vars

\* the helper's treat callback has run on a caught helper while the level
\* goes on and treats are left
C34_Witness ==
  /\ HelperGone
  /\ game.op = "axolTreat"
  /\ ~game.isGameOver
  /\ level.treats # {}

(***************************************************************************)
(* C35  The end of a poop                                                  *)
(***************************************************************************)
\* pursuer k leaves the step freshly stunned
FreshlyStunned(k) ==
  /\ level'.enemies[k].state = "STUNNED"
  /\ level'.enemies[k].stunTimer = POOP_STUN_DURATION_MS

\* the step has not stunned pursuer k: if it leaves it STUNNED, it was, and
\* its timer has not grown
NotStunnedBy(k) ==
  level'.enemies[k].state = "STUNNED" =>
    /\ level.enemies[k].state = "STUNNED"
    /\ level'.enemies[k].stunTimer <= level.enemies[k].stunTimer

\* C35: a dropped poop is destroyed at most once, and is gone once its
\* expiry timer has fired; it is destroyed either by the overlap of a pursuer
\* or by its expiry, POOP_DURATION_MS of frame time after the drop; the
\* overlap removes a poop that was still there and stuns that pursuer and no
\* other; the expiry of a consumed poop destroys nothing; no other step
\* stuns a pursuer.
C35_RemovedOnce ==
  /\ [](game.scene = "GameScene" =>
          \A j \in DOMAIN level.poops :
            /\ level.poops[j].destroyed <= 1
            /\ level.poops[j].active <=> level.poops[j].destroyed = 0
            /\ level.poops[j].active => level.poops[j].pending
            /\ level.poops[j].by = "expiry" => level.poops[j].left <= 0)
  /\ [][ (game.scene = "GameScene" /\ game'.scene = "GameScene"
          /\ game'.op # "restart") =>
          /\ game'.op = "poop" =>
                \E j \in DOMAIN level.poops, k \in DOMAIN level.enemies :
                  /\ level.poops[j].active /\ ~level'.poops[j].active
                  /\ FreshlyStunned(k)
                  /\ \A o \in DOMAIN level.enemies \ { k } :
                        level'.enemies[o] = level.enemies[o]
          /\ game'.op # "poop" =>
                \A k \in DOMAIN level.enemies : NotStunnedBy(k)
          /\ game'.op = "expire" =>
                \A j \in DOMAIN level.poops :
                  ~level.poops[j].active =>
                    level'.poops[j].destroyed = level.poops[j].destroyed
          /\ game'.op \notin { "poop", "expire" } =>
                \A j \in DOMAIN level.poops :
                  level'.poops[j].active = level.poops[j].active ]_vars

\* a poop that a pursuer consumed, after its timer has fired
C35_Witness ==
  /\ game.scene = "GameScene"
  /\ game.op = "expire"
  /\ \E j \in DOMAIN level.poops :
       /\ level.poops[j].by = "pursuer"
       /\ ~level.poops[j].pending
       /\ level.poops[j].destroyed = 1

(***************************************************************************)
(* C36  One outcome per level                                              *)
(***************************************************************************)
\* the step stays within the running instance of the level
SameInstance ==
  /\ game.scene = "GameScene"
  /\ game'.scene = "GameScene"
  /\ game'.op # "restart"

\* C36: in one instance of a level at most one outcome method goes past its
\* guard, so the lose overlay and the win timer never coexist; once the level
\* is over it stays over, no callback changes the overlay or the pending
\* scene change, a further triggerLose changes nothing, and update() ticks
\* neither the player, nor a pursuer, nor the helper.
C36_OneOutcome ==
  /\ [](game.scene = "GameScene" =>
          /\ level.effects <= 1
          /\ game.isGameOver <=> level.effects = 1
          /\ ~(game.overlay = "lose" /\ game.timer # "none"))
  /\ [][ (SameInstance /\ game.isGameOver) =>
          /\ game'.isGameOver
          /\ game'.overlay = game.overlay
          /\ game'.timer = game.timer
          /\ level'.effects = level.effects
          /\ game'.op = "lose" =>
                /\ game' = [game EXCEPT !.op = "lose"]
                /\ level' = [level EXCEPT !.call = "triggerLose"]
          /\ game'.op = "update" =>
                /\ level'.ticked = {}
                /\ level'.enemies = level.enemies
                /\ level'.axol = level.axol
                /\ game'.poopCharges = game.poopCharges ]_vars

\* triggerLose has been called after the win took effect
C36_Witness ==
  /\ game.scene = "GameScene"
  /\ game.op = "lose"
  /\ level.call = "triggerLose"
  /\ game.timer # "none"

(***************************************************************************)
(* C37  The treat counter                                                  *)
(***************************************************************************)
\* C37: the treat counter is the number of treats removed from the level and
\* never exceeds TotalTreats; the win is in effect only when no treat is
\* left; a step that changes the counter is a treat callback of the player
\* or of the helper that removes one treat and adds one; triggerWin is
\* called by the collection that brings the counter to TotalTreats, by no
\* other, and takes effect then unless the level was over already.
C37_TreatCount ==
  /\ [](game.scene = "GameScene" =>
          /\ level.treatCount = TotalTreats - Cardinality(level.treats)
          /\ level.treatCount <= TotalTreats
          /\ game.timer # "none" =>
                level.treats = {} /\ level.treatCount = TotalTreats)
  /\ [][ SameInstance =>
          /\ level'.treatCount # level.treatCount =>
                /\ game'.op \in { "treat", "axolTreat" }
                /\ level'.treatCount = level.treatCount + 1
                /\ \E i \in level.treats : level'.treats = level.treats \ { i }
          /\ level'.call = "triggerWin" <=>
                /\ level'.treatCount = level.treatCount + 1
                /\ level'.treatCount = TotalTreats
          /\ (level'.call = "triggerWin" /\ ~game.isGameOver) =>
                game'.isGameOver /\ game'.timer # "none" ]_vars

\* the helper has collected the last treat and the win is in effect
C37_Witness ==
  /\ game.scene = "GameScene"
  /\ game.op = "axolTreat"
  /\ level.call = "triggerWin"
  /\ level.treatCount = TotalTreats
  /\ level.treats = {}
  /\ game.timer # "none"

(***************************************************************************)
(* C38  The waypoint index stays within the route                          *)
(***************************************************************************)
\* C38: with a non-empty waypoint list, after creation and after every
\* update() and stun(), in every state, 0 <= waypointIndex < number of
\* waypoints.
C38_IndexInRange ==
  Len(waypoints) # 0 =>
    /\ 0 <= waypointIndex
    /\ waypointIndex < Len(waypoints)

\* an update() in PATROL has left the pursuer within arrival distance of the
\* last waypoint with the index back at the first
C38_Witness ==
  /\ lastOp = "update"
  /\ startState = "PATROL"
  /\ Len(waypoints) # 0
  /\ waypointIndex = 0
  /\ DistSq(waypoints[Len(waypoints)].x - pos.x,
            waypoints[Len(waypoints)].y - pos.y)
       < WAYPOINT_ARRIVE_DIST * WAYPOINT_ARRIVE_DIST

(***************************************************************************)
(* C39  A stun restarts the stun                                           *)
(***************************************************************************)
\* C39: right after any stun() the pursuer is STUNNED with the timer at
\* POOP_STUN_DURATION_MS, whatever its state and timer were; while STUNNED
\* the timer is POOP_STUN_DURATION_MS less the deltas of the updates since
\* the most recent stun(); an update() leaves it STUNNED as long as those
\* deltas stay below POOP_STUN_DURATION_MS and ends the stun when they reach
\* it.
C39_StunRestarts ==
  /\ [](lastOp = "stun" =>
          state = "STUNNED" /\ stunTimer = POOP_STUN_DURATION_MS)
  /\ [](state = "STUNNED" =>
          /\ sinceStunMs < POOP_STUN_DURATION_MS
          /\ stunTimer = POOP_STUN_DURATION_MS - sinceStunMs)
  /\ [][ (state = "STUNNED" /\ lastOp' = "update") =>
          /\ sinceStunMs' = sinceStunMs + delta'
          /\ state' = "STUNNED" <=> sinceStunMs' < POOP_STUN_DURATION_MS
          /\ state' # "STUNNED" => state' = "PATROL" ]_vars

\* a stun() on a pursuer that was STUNNED with part of its timer gone
C39_Witness ==
  /\ lastOp = "stun"
  /\ startState = "STUNNED"
  /\ stunBefore > 0
  /\ stunBefore < POOP_STUN_DURATION_MS
  /\ stunTimer = POOP_STUN_DURATION_MS
====
